---- MODULE Spec2Model ----
(***************************************************************************)
(* A model of the request pipeline of the minio-js client                  *)
(* (src/src/main/minio.js): the per-bucket region cache with the request   *)
(* executor that fills and evicts it, and the multipart upload engine      *)
(* (putObject in stream form, fPutObject).                                 *)
(*                                                                         *)
(* Specification Spec is the region cache and the request executor:        *)
(* several API calls are in flight on one client at a time, each an entry  *)
(* of ops, and every asynchronous callback of the source is one action.    *)
(*                                                                         *)
(* Specification SpecUpload is putObject (stream form) and fPutObject for  *)
(* one object "o" of one bucket, on the simple PUT and on the multipart    *)
(* path, against a server that keeps the incomplete uploads and their      *)
(* parts. Every HTTP request of the upload ends in one of: the expected    *)
(* status, an error passed to the callback (unexpected status or transport *)
(* error).                                                                 *)
(*                                                                         *)
(* Specification SpecGet is fGetObject, the download into a file through a *)
(* part file. Specification SpecMakeBucket is the request that makeBucket  *)
(* builds from its arguments; of makeBucket Spec keeps what concerns the   *)
(* region cache. Specification SpecPresign is the presigned calls on a     *)
(* client with or without keys, next to requests that fill and clear the   *)
(* region cache. SpecClient is Spec on a client with or without keys.      *)
(* SpecNames is calls with illegal bucket names beside requests, SpecRetry  *)
(* requests to buckets that move to another region, with callers that try  *)
(* again and the fairness of the server and of the event loop. SpecCall is *)
(* the calls whose result depends on their arguments only (the reduction   *)
(* of getBucketACL, the Range of getPartialObject, calculatePartSize),     *)
(* SpecPolicy a PostPolicy with its setters and presignedPostPolicy,       *)
(* SpecAppInfo the user agent under setAppInfo. SpecRemove is SpecUpload   *)
(* with removeIncompleteUpload calls for the same object, SpecLoop is      *)
(* fPutObject when no request fails, under the fairness of the event loop. *)
(* SpecChunks is chunkUploader as a stream that chunks of any length are   *)
(* written to, SpecStream one makeRequestStream call after the other with  *)
(* each of its listeners as an action.                                     *)
(*                                                                         *)
(* Sizes are in bytes, with the size constants of the client scaled down   *)
(* so that every case of the part-size formula is within reach of the      *)
(* model checker: minimumPartSize is 2 bytes instead of 5 MiB, and the     *)
(* divisor 10000 of calculatePartSize is 3. The code depends on these      *)
(* numbers only through the comparisons and the arithmetic modelled here.  *)
(***************************************************************************)
EXTENDS Integers, Sequences, FiniteSets, TLC

\* ------------------------------------------------------------------------
\* Bounds of the model
\* ------------------------------------------------------------------------

\* API calls in flight at the same time on one client.
MaxOps == 2

\* The largest object size (file size, declared stream size) uploaded.
MaxSize == 10

\* Invocations of putObject / fPutObject for one object, one after the
\* other: the second is the retry after the first has ended.
MaxInvocations == 2

\* ------------------------------------------------------------------------
\* The region cache and the request executor
\* ------------------------------------------------------------------------

Ops == 1..MaxOps

Buckets == {"b1", "b2"}

\* The bucket whose history the history variables follow; the other bucket
\* is there for the calls that must leave B's cache entry alone.
B == "b1"

\* options.bucketName of a request that names no bucket (listBuckets).
NoBucket == "none"

\* The value of this.regionMap[b] for a key that is absent.
NoRegion == "none"

\* The region a request is signed with when no bucket is named, and the
\* region of a bucket whose LocationConstraint is empty.
DefaultRegion == "us-east-1"

\* var region = 'us-east-1'; on 'data': if (data) region = data
DecodeRegion(body) == IF body = "" THEN DefaultRegion ELSE body

\* The API calls: those that go through makeRequestStream with a bucket
\* ("bucketReq" stands for bucketExists, statObject, getObject, ...),
\* listBuckets (no bucket), and the two that build their own request:
\* makeBucket and a presign call (getBucketRegion called directly).
StreamKinds == {"bucketReq", "removeBucket"}

Kinds == StreamKinds \cup {"listBuckets", "makeBucket", "presign"}

VARIABLES
    regionMap,   \* this.regionMap: bucket -> region, NoRegion when absent
    ops,         \* the API calls in flight, one record per slot
    okSince,     \* history of bucket B: a request to B succeeded, and no
                 \*   unexpected status for B nor successful removeBucket(B)
                 \*   came since
    okCached,    \* history: as okSince, and B's region was in the cache at
                 \*   the moment that request succeeded
    failedLast,  \* history: a response for B had an unexpected status and
                 \*   no request to B was started since
    removedLast, \* history: a removeBucket(B) has succeeded and no request
                 \*   to B was started since
    client       \* this.anonymous, and as history the last error a
                 \*   call has thrown

\* The server: the region each bucket is kept in, and how often a bucket
\* has been removed and created again in another region.
VARIABLE srvRegion

regionVars ==
    <<regionMap, ops, okSince, okCached, failedLast, removedLast, client, srvRegion>>

\* How often buckets move to another region.
MaxMoves == 1

\* The regions the server keeps buckets in.
ServerRegions == {"us-east-1", "eu-west-1"}

\* Where the server keeps each bucket, and the LocationConstraint body it
\* sends for GET /{bucket}?location: empty for us-east-1.
Location(b) == srvRegion.where[b]

LocationBody(b) == IF Location(b) = "us-east-1" THEN "" ELSE Location(b)

VARIABLES
    srvUploads,  \* server: the incomplete uploads, in listing order
    srvParts,    \* server: uploadId -> partNumber -> ETag of the stored part
    srvObject,   \* server: the part ETags object "o" was assembled from
    inv,         \* the invocation of putObject / fPutObject and its input
    pipes,       \* the runs of the waterfall's steps after findUploadId
    puts         \* the part PUT requests in flight

uploadVars == <<srvUploads, srvParts, srvObject, inv, pipes, puts>>

\* fGetObject's state. Inputs: dir, the object's size on the server, and
\* partFile0, the size of the part file of the object's etag when
\* fGetObject is called. Internal data: objStat (its size), partFile (is it
\* assigned), partFileStream (its flags), cbDefined (is the cb of the step
\* that runs a function), the waterfall's error. The files: the size of
\* the part file and of the file at filePath. History: offset and request
\* of the GET, gets and renames, the numbers of GET requests and of
\* fs.rename calls, and whether the waterfall has ended with an error.
VARIABLE get

getVars == <<get>>

\* makeBucket's state: its arguments acl and region, the payload and the
\* x-amz-acl header of its request, the region the request is signed with.
VARIABLE made

\* A call of a function of the client that sends no request: its name, its
\* arguments, and what it returns or throws.
VARIABLE call

\* A PostPolicy object, the presignedPostPolicy call it is passed to, and
\* as history the calls of its setters.
VARIABLE policy

\* A chunkUploader stream that chunks are written to directly.
VARIABLE cu

\* The makeRequestStream calls made one after the other on the client.
VARIABLE rq

callVars == <<call, policy, cu, rq>>

vars == <<regionVars, uploadVars, getVars, made, callVars>>

\* A free slot. sig is the region the request was signed with, looked
\* whether the call sent GET ?location, headers the signing headers of the
\* request the call has in flight, body the body of the answer to
\* GET ?location.
IdleOp == [kind |-> "none", bucket |-> NoBucket, pc |-> "idle", sig |-> NoRegion,
           looked |-> FALSE, headers |-> {}, body |-> ""]

\* The headers set when a request is signed.
AuthHeaders == {"authorization", "x-amz-date", "x-amz-content-sha256"}

\* A request stamped and signed whatever this.anonymous is.
StampAlways(region) == [headers |-> AuthHeaders, sig |-> region]

\* if (!this.anonymous) { headers['x-amz-date'] = ...;
\* headers['x-amz-content-sha256'] = ...; headers.authorization =
\* signV4(reqOptions, accessKey, secretKey, region) }: the headers of the
\* request and the region of its signature.
Stamp(region) ==
    IF client.anonymous THEN [headers |-> {}, sig |-> NoRegion]
    ELSE [headers |-> AuthHeaders, sig |-> region]

\* if (this.regionMap[bucketName]) ...
RegionCachedNever(b) == FALSE

RegionCached(b) == regionMap[b] # NoRegion

\* delete(this.regionMap[bucketName])
EvictNothing(b) == regionMap

EvictAll(b) == [x \in Buckets |-> NoRegion]

Evict(b) == [x \in Buckets |-> IF x = b THEN NoRegion ELSE regionMap[x]]

InitRegion ==
    /\ regionMap = [b \in Buckets |-> NoRegion]
    /\ ops = [o \in Ops |-> IdleOp]
    /\ okSince = FALSE
    /\ okCached = FALSE
    /\ failedLast = FALSE
    /\ removedLast = FALSE
    /\ srvRegion = [where |-> [b \in Buckets |-> IF b = B THEN "us-east-1"
                                                 ELSE "eu-west-1"],
                    moves |-> 0]

\* History bookkeeping of an unexpected status for b, of whatever request.
NoteUnexpected(b) ==
    /\ okSince' = (okSince /\ b # B)
    /\ okCached' = (okCached /\ b # B)
    /\ failedLast' = (failedLast \/ b = B)
    /\ UNCHANGED removedLast

\* getBucketRegion(bucketName, cb) called for the call in slot o: a cache
\* hit calls cb at once and the caller continues in state next (a presign
\* call is finished and frees its slot); a miss sends
\* GET /{bucket}?location, signed with us-east-1.
GetBucketRegion(o, kind, b, next) ==
    IF RegionCached(b)
    THEN ops' = [ops EXCEPT ![o] = IF next = "idle" THEN IdleOp
                                   ELSE [kind |-> kind, bucket |-> b, pc |-> next,
                                         sig |-> Stamp(regionMap[b]).sig,
                                         looked |-> FALSE,
                                         headers |-> Stamp(regionMap[b]).headers,
                                         body |-> ""]]
    ELSE ops' = [ops EXCEPT ![o] = [kind |-> kind, bucket |-> b, pc |-> "locating",
                                    sig |-> NoRegion, looked |-> TRUE,
                                    headers |-> Stamp(DefaultRegion).headers,
                                    body |-> ""]]

\* makeRequestStream for a request that names bucket b.
MakeRequestStream(o, kind, b) ==
    /\ UNCHANGED <<uploadVars, getVars, made, callVars, client, srvRegion>>
    /\ ops[o].pc = "idle"
    /\ kind \in StreamKinds
    /\ GetBucketRegion(o, kind, b, "sending")
    /\ failedLast' = (failedLast /\ b # B)
    /\ removedLast' = (removedLast /\ b # B)
    /\ UNCHANGED <<regionMap, okSince, okCached>>

\* The presigned calls.
PresignApis == {"presignedGetObject", "presignedPutObject", "presignedPostPolicy"}

NoThrow == [api |-> "none", error |-> "none"]

\* var libraryAgent = `Minio ${libraryComments} minio-js/${Package.version}`:
\* the words of the string, a product as its name and its version.
LibraryAgent ==
    <<"Minio", "(platform; arch)", [name |-> "minio-js", version |-> "version"]>>

\* The client as the constructor leaves it: anonymous when an access key or
\* a secret key is missing.
NewClient(anonymous) ==
    [anonymous |-> anonymous, thrown |-> NoThrow, userAgent |-> LibraryAgent]

\* The most successful calls of setAppInfo.
MaxAppInfoCalls == 3

\* The arguments of setAppInfo: strings, and a value that is no string.
AppArgs == [type : {"string"}, value : {"app", "1.0", "", " "}]
               \cup {[type |-> "number", value |-> "7"]}

\* String.prototype.trim of these values.
Trim(value) == IF value = " " THEN "" ELSE value

\* setAppInfo(appName, appVersion): the checks of the arguments, then
\* this.params.userAgent = `${this.params.userAgent} ${appName}/${appVersion}`
SetAppInfo(appName, appVersion) ==
    /\ Len(client.userAgent) - Len(LibraryAgent) < MaxAppInfoCalls
    /\ client' =
           IF appName.type # "string" \/ appVersion.type # "string"
           THEN [client EXCEPT !.thrown = [api |-> "setAppInfo", error |-> "TypeError"]]
           ELSE IF Trim(appName.value) = "" \/ Trim(appVersion.value) = ""
           THEN [client EXCEPT !.thrown = [api |-> "setAppInfo",
                                           error |-> "InvalidArgumentError"]]
           ELSE [client EXCEPT !.userAgent =
                     Append(@, [name |-> appName.value,
                                version |-> appVersion.value])]
    /\ UNCHANGED <<regionMap, ops, okSince, okCached, failedLast, removedLast>>
    /\ UNCHANGED <<uploadVars, getVars, made, callVars, srvRegion>>

\* A presigned call that does not look at this.anonymous.
PresignUnchecked(o, api, b) ==
    /\ UNCHANGED <<uploadVars, getVars, made, callVars, client, srvRegion>>
    /\ ops[o].pc = "idle"
    /\ api \in PresignApis
    /\ GetBucketRegion(o, "presign", b, "idle")
    /\ failedLast' = (failedLast /\ b # B)
    /\ removedLast' = (removedLast /\ b # B)
    /\ UNCHANGED <<regionMap, okSince, okCached>>

\* presignedGetObject / presignedPutObject / presignedPostPolicy: on an
\* anonymous client the call throws AnonymousRequestError at once; else
\* the region is resolved and cb(null, url) is called; no other request is
\* sent.
Presign(o, api, b) ==
    /\ UNCHANGED <<uploadVars, getVars, made, callVars, srvRegion>>
    /\ ops[o].pc = "idle"
    /\ api \in PresignApis
    /\ IF client.anonymous
       THEN /\ client' = [client EXCEPT !.thrown =
                            [api |-> api, error |-> "AnonymousRequestError"]]
            /\ UNCHANGED <<regionMap, ops, okSince, okCached, failedLast, removedLast>>
       ELSE /\ GetBucketRegion(o, "presign", b, "idle")
            /\ failedLast' = (failedLast /\ b # B)
            /\ removedLast' = (removedLast /\ b # B)
            /\ UNCHANGED <<regionMap, okSince, okCached, client>>

\* isValidBucketName(bucketName) of helpers.js: the names of Buckets are
\* legal, the empty string and undefined are not.
IsValidBucketName(bucketName) == bucketName \in Buckets

\* The public calls that take a bucket name, and bucket names that are not
\* legal.
BucketApis ==
    {"makeBucket", "listIncompleteUploads", "bucketExists", "removeBucket",
     "getBucketACL", "setBucketACL", "removeIncompleteUpload", "fGetObject",
     "getObject", "getPartialObject", "fPutObject", "putObject", "listObjects",
     "statObject", "removeObject", "presignedPutObject", "presignedGetObject"}

IllegalNames == {"", "b"}

\* What `throw new errors.<Name>(...)` of the bucket name check of api
\* raises: removeIncompleteUpload names errors.isValidBucketNameError,
\* which is undefined, so that `new` raises a TypeError.
BucketNameError(api) ==
    IF api = "removeIncompleteUpload" THEN "TypeError" ELSE "InvalidBucketNameError"

\* A public call with a bucket name that is not legal: its first check
\* throws (in presignedPutObject and presignedGetObject the check of
\* this.anonymous comes first).
IllegalBucketName(api, bucketName) ==
    /\ api \in BucketApis
    /\ ~IsValidBucketName(bucketName)
    /\ client' = [client EXCEPT !.thrown =
                     [api |-> api,
                      error |-> IF api \in PresignApis /\ client.anonymous
                                THEN "AnonymousRequestError"
                                ELSE BucketNameError(api)]]
    /\ UNCHANGED <<regionMap, ops, okSince, okCached, failedLast, removedLast>>
    /\ UNCHANGED <<uploadVars, getVars, made, callVars, srvRegion>>

\* A listBuckets that resolves the region of bucket B first.
ListBucketsLocated(o) ==
    /\ UNCHANGED <<uploadVars, getVars, made, callVars, client, srvRegion>>
    /\ ops[o].pc = "idle"
    /\ GetBucketRegion(o, "listBuckets", B, "sending")
    /\ UNCHANGED <<regionMap, okSince, okCached, failedLast, removedLast>>

\* listBuckets: if (!options.bucketName) return _makeRequest(null, 'us-east-1')
ListBuckets(o) ==
    /\ UNCHANGED <<uploadVars, getVars, made, callVars, client, srvRegion>>
    /\ ops[o].pc = "idle"
    /\ ops' = [ops EXCEPT ![o] = [IdleOp EXCEPT !.kind = "listBuckets",
                                   !.pc = "sending",
                                   !.sig = Stamp(DefaultRegion).sig,
                                   !.headers = Stamp(DefaultRegion).headers]]
    /\ UNCHANGED <<regionMap, okSince, okCached, failedLast, removedLast>>

\* makeBucket: PUT /{bucket}, built and signed with us-east-1 without
\* getBucketRegion.
MakeBucket(o, b) ==
    /\ UNCHANGED <<uploadVars, getVars, made, callVars, client, srvRegion>>
    /\ ops[o].pc = "idle"
    /\ ops' = [ops EXCEPT ![o] = [IdleOp EXCEPT !.kind = "makeBucket", !.bucket = b,
                                   !.pc = "sending",
                                   !.sig = Stamp(DefaultRegion).sig,
                                   !.headers = Stamp(DefaultRegion).headers]]
    /\ UNCHANGED <<regionMap, okSince, okCached, failedLast, removedLast>>

\* req.on('response') of getBucketRegion with a status other than 200: the
\* body is piped through the error transformer; nothing is evicted.
LocationStatusError(o) ==
    /\ UNCHANGED <<uploadVars, getVars, made, callVars, client, srvRegion>>
    /\ ops[o].pc = "locating"
    /\ ops' = [ops EXCEPT ![o].pc = "locErrBody"]
    /\ NoteUnexpected(ops[o].bucket)
    /\ UNCHANGED regionMap

\* req.on('response') of getBucketRegion with status 200: the body is piped
\* through the region transformer.
LocationResponse(o) ==
    /\ UNCHANGED <<uploadVars, getVars, made, callVars, client, srvRegion>>
    /\ ops[o].pc = "locating"
    /\ ops' = [ops EXCEPT ![o].pc = "locDecoding",
                          ![o].body = LocationBody(ops[o].bucket)]
    /\ UNCHANGED <<regionMap, okSince, okCached, failedLast, removedLast>>

\* .on('end'): this.regionMap[bucketName] = region; cb(null, region). The
\* caller continues: _makeRequest signs and sends the request, a presign
\* call returns its URL.
LocationEnd(o) ==
    /\ UNCHANGED <<uploadVars, getVars, made, callVars, client, srvRegion>>
    /\ ops[o].pc = "locDecoding"
    /\ LET b == ops[o].bucket
           region == DecodeRegion(ops[o].body)
       IN /\ regionMap' = [regionMap EXCEPT ![b] = region]
          /\ ops' = [ops EXCEPT ![o] = IF ops[o].kind = "presign" THEN IdleOp
                                       ELSE [ops[o] EXCEPT !.sig = Stamp(region).sig,
                                                           !.headers = Stamp(region).headers,
                                                           !.body = "",
                                                           !.pc = "sending"]]
    /\ UNCHANGED <<okSince, okCached, failedLast, removedLast>>

\* A failed lookup taken for the default region: the request is signed
\* with us-east-1 and sent.
LocationFailIgnored(o) ==
    /\ UNCHANGED <<uploadVars, getVars, made, callVars, client, srvRegion>>
    /\ ops[o].pc \in {"locating", "locErrBody", "locDecoding"}
    /\ ops' = [ops EXCEPT ![o].sig = DefaultRegion, ![o].pc = "sending"]
    /\ UNCHANGED <<regionMap, okSince, okCached, failedLast, removedLast>>

\* cb(e) of getBucketRegion: req.on('error'), the decoded error body, or
\* .on('error', cb) of the region transformer. _makeRequest returns cb(e):
\* the dependent request is not sent.
LocationFail(o) ==
    /\ UNCHANGED <<uploadVars, getVars, made, callVars, client, srvRegion>>
    /\ ops[o].pc \in {"locating", "locErrBody", "locDecoding"}
    /\ ops' = [ops EXCEPT ![o] = IdleOp]
    /\ UNCHANGED <<regionMap, okSince, okCached, failedLast, removedLast>>

\* The response callback of the request itself, with the expected status:
\* cb(null, response). removeBucket's callback then deletes the entry. The
\* server gives the expected status only to a request that is signed for
\* the region of its bucket ("For an incorrect region, S3 server always
\* sends back 400").
ResponseOk(o) ==
    /\ UNCHANGED <<uploadVars, getVars, made, callVars, client, srvRegion>>
    /\ ops[o].pc = "sending"
    /\ ops[o].kind \in StreamKinds /\ ~client.anonymous =>
           ops[o].sig = Location(ops[o].bucket)
    /\ ops' = [ops EXCEPT ![o] = IdleOp]
    /\ LET b == ops[o].bucket
       IN IF ops[o].kind = "removeBucket"
          THEN /\ regionMap' = Evict(b)
               /\ okSince' = (okSince /\ b # B)
               /\ okCached' = (okCached /\ b # B)
               /\ removedLast' = (removedLast \/ b = B)
               /\ UNCHANGED failedLast
          ELSE IF ops[o].kind = "bucketReq" /\ b = B
          THEN /\ okSince' = TRUE
               /\ okCached' = (regionMap[B] # NoRegion)
               /\ UNCHANGED <<regionMap, failedLast, removedLast>>
          ELSE UNCHANGED <<regionMap, okSince, okCached, failedLast, removedLast>>

\* The response callback with another status. makeRequestStream deletes the
\* bucket's cache entry and pipes the body through the error transformer;
\* makeBucket only pipes the body.
ResponseStatusError(o) ==
    /\ UNCHANGED <<uploadVars, getVars, made, callVars, client, srvRegion>>
    /\ ops[o].pc = "sending"
    /\ ops' = [ops EXCEPT ![o].pc = "errBody"]
    /\ LET b == ops[o].bucket
       IN IF b = NoBucket
          THEN UNCHANGED <<regionMap, okSince, okCached, failedLast, removedLast>>
          ELSE /\ regionMap' = IF ops[o].kind \in StreamKinds THEN Evict(b)
                               ELSE regionMap
               /\ NoteUnexpected(b)

\* .on('error', e => cb(e)) of the error transformer: the decoded error
\* reaches the caller.
ErrorBody(o) ==
    /\ UNCHANGED <<uploadVars, getVars, made, callVars, client, srvRegion>>
    /\ ops[o].pc = "errBody"
    /\ ops' = [ops EXCEPT ![o] = IdleOp]
    /\ UNCHANGED <<regionMap, okSince, okCached, failedLast, removedLast>>

\* A transport error of the request: cb(e), nothing is evicted.
SocketError(o) ==
    /\ UNCHANGED <<uploadVars, getVars, made, callVars, client, srvRegion>>
    /\ ops[o].pc = "sending"
    /\ ops' = [ops EXCEPT ![o] = IdleOp]
    /\ UNCHANGED <<regionMap, okSince, okCached, failedLast, removedLast>>

\* The server: bucket b is removed and created again in another region,
\* by another client.
Relocate(b) ==
    /\ srvRegion.moves < MaxMoves
    /\ \E region \in ServerRegions \ {Location(b)} :
           srvRegion' = [where |-> [srvRegion.where EXCEPT ![b] = region],
                         moves |-> srvRegion.moves + 1]
    /\ UNCHANGED <<regionMap, ops, okSince, okCached, failedLast, removedLast, client>>
    /\ UNCHANGED <<uploadVars, getVars, made, callVars>>

NextRegion ==
    \E o \in Ops :
        \/ \E b \in Buckets, k \in StreamKinds : MakeRequestStream(o, k, b)
        \/ \E b \in Buckets, api \in PresignApis : Presign(o, api, b)
        \/ \E b \in Buckets : MakeBucket(o, b)
        \/ ListBuckets(o)
        \/ LocationStatusError(o)
        \/ LocationResponse(o)
        \/ LocationEnd(o)
        \/ LocationFail(o)
        \/ ResponseOk(o)
        \/ ResponseStatusError(o)
        \/ ErrorBody(o)
        \/ SocketError(o)

\* ------------------------------------------------------------------------
\* The multipart upload engine: sizes, digests, the server
\* ------------------------------------------------------------------------

\* this.minimumPartSize = 5*1024*1024, scaled to 2 bytes.
minimumPartSize == 2

\* this.maximumPartSize = 5*1024*1024*1024, scaled.
maximumPartSize == 6

\* this.maxObjectSize = 5*1024*1024*1024*1024, scaled.
maxObjectSize == 12

\* The divisor 10000 of calculatePartSize (the largest number of parts of
\* an upload), scaled to 3.
maxPartsCount == 3

\* Math.ceil(a/b) for naturals.
Ceil(a, b) == (a + b - 1) \div b

\* The quotient of size by the most parts an upload may have, not rounded
\* up to a multiple of minimumPartSize.
calculatePartSizeUnrounded(size) == Ceil(size, maxPartsCount)

\* The part size that is minimumPartSize for every size.
calculatePartSizeMinimum(size) == minimumPartSize

\* calculatePartSize(size), for size <= maxObjectSize.
calculatePartSize(size) ==
    LET partSize == Ceil(size, maxPartsCount)
    IN Ceil(partSize, minimumPartSize) * minimumPartSize

\* var length = partSize; if (length > (size - uploadedSize)) length =
\* size - uploadedSize
MinIsFirst(a, b) == a

Min(a, b) == IF a < b THEN a ELSE b

\* A run of bytes: len bytes from offset from of the data named file. "F"
\* is the input of the upload (the file, the bytes of the stream), "G" other
\* data that an earlier upload left parts of. Different runs are taken to
\* have different digests.
Chunk(file, from, len) == [file |-> file, from |-> from, len |-> len]

\* Digests as the code passes them around: an MD5 in hex or in base64, bare
\* or within the double quotes of an ETag header.
MD5Hex(c) == [enc |-> "hex", quoted |-> FALSE, of |-> c]

MD5Base64(c) == [enc |-> "base64", quoted |-> FALSE, of |-> c]

\* (new Buffer(md5sum, 'base64')).toString('hex')
Base64ToHex(d) == IF d.enc = "base64" THEN [d EXCEPT !.enc = "hex"] ELSE d

\* (new Buffer(md5sumhex, 'hex')).toString('base64')
HexToBase64(d) == IF d.enc = "hex" THEN [d EXCEPT !.enc = "base64"] ELSE d

\* etag.replace(/^\"/, '').replace(/\"$/, '')
StripQuotes(e) == [e EXCEPT !.quoted = FALSE]

\* The ETag header of the server's answer to a part PUT.
ETagHeader(body) == [MD5Hex(body) EXCEPT !.quoted = TRUE]

\* parts[n] of an upload without part n; the uploadId of "no upload".
NoEtag == [enc |-> "none", quoted |-> FALSE, of |-> Chunk("", 0, 0)]

NoUpload == 0

\* The object keys of the incomplete uploads on the server: the object
\* being uploaded, and another one that the prefix query lists as well.
ObjectName == "o"

OtherName == "ox"

PartNumbers == 1..maxPartsCount

\* uploadIds: 1 and 2 are the uploads that exist at the start, the upload
\* that invocation n initiates gets 2 + n.
UploadIds == 1..(2 + MaxInvocations)

NoParts == [n \in PartNumbers |-> NoEtag]

\* The two entry points, and the sizes of the objects: a declared size of a
\* stream is any number that is not negative, a file may be empty.
Apis == {"put", "fput"}

Sizes == 0..Min(MaxSize, maxObjectSize)

\* Part n of an uninterrupted upload of size bytes of F.
PartChunk(file, size, n) ==
    LET partSize == calculatePartSize(size)
    IN Chunk(file, (n - 1) * partSize, Min(partSize, size - (n - 1) * partSize))

RECURSIVE SumLen(_)
SumLen(done) == IF done = <<>> THEN 0 ELSE done[1].len + SumLen(Tail(done))

\* etags.reduce(...): the first record of each part number.
PartsOf(etags) ==
    [n \in PartNumbers |->
        IF \E i \in 1..Len(etags) : etags[i].part = n
        THEN etags[CHOOSE i \in 1..Len(etags) :
                     /\ etags[i].part = n
                     /\ \A j \in 1..(i - 1) : etags[j].part # n].etag
        ELSE NoEtag]

\* The parts of upload id in the order and form of a parts listing, from
\* part number marker on.
RECURSIVE ListedParts(_, _)
ListedParts(id, marker) ==
    IF marker >= maxPartsCount THEN <<>>
    ELSE IF srvParts[id][marker + 1] = NoEtag THEN ListedParts(id, marker + 1)
    ELSE <<[part |-> marker + 1, etag |-> srvParts[id][marker + 1]]>>
         \o ListedParts(id, marker + 1)

\* The incomplete uploads are listed by key, then by age. A marker is the
\* last upload of the page before; the first query has the empty marker.
NoMarker == [key |-> "", id |-> NoUpload]

KeyRank(key) == IF key = ObjectName THEN 1 ELSE 2

ListedBefore(u, v) ==
    \/ KeyRank(u.key) < KeyRank(v.key)
    \/ u.key = v.key /\ u.id < v.id

UploadsAfter(marker) ==
    IF marker = NoMarker THEN srvUploads
    ELSE SelectSeq(srvUploads, LAMBDA u : ListedBefore(marker, u))

\* The listing with upload u added.
WithUpload(u) ==
    SelectSeq(srvUploads, LAMBDA v : ListedBefore(v, u)) \o <<u>>
    \o SelectSeq(srvUploads, LAMBDA v : ~ListedBefore(v, u))

\* The listing without upload id.
WithoutUpload(id) == SelectSeq(srvUploads, LAMBDA v : v.id # id)

\* The runs of the steps after findUploadId: findUploadId calls the
\* waterfall's cb once for every upload of a page whose key is the object
\* name, and every call runs the later steps; at most two uploads of the
\* object exist at the start.
Pipes == {1, 2}

\* A run that has not started. partsDone carries, next to part and etag,
\* two history fields per entry: len, the length of the chunk, and sent,
\* whether the chunk was PUT by this run. putLog is history as well: the
\* part numbers of the PUTs the run has sent, in the order sent.
OffPipe == [pc |-> "off", uploadId |-> NoUpload, marker |-> 0, etags |-> <<>>,
            partsDone |-> <<>>, partNumber |-> 1, uploadedSize |-> 0,
            aggregatedSize |-> 0, attachPos |-> 0, busy |-> FALSE,
            putLog |-> <<>>]

\* What the server holds at the start, for an upload of size bytes: no
\* upload; an upload of the object with no part, with part 1 of F, with a
\* part 1 of other data, with part 1 of F and a part 2 of other data, with
\* only a part 2 of other data; two uploads of the object; two uploads of
\* another object with the same prefix.
Stored(one, two) ==
    [id \in UploadIds |-> IF id = 1
                          THEN [n \in PartNumbers |-> IF n = 1 THEN one
                                                      ELSE IF n = 2 THEN two
                                                      ELSE NoEtag]
                          ELSE NoParts]

Preexisting(size) ==
    LET good == MD5Hex(PartChunk("F", size, 1))
        stale1 == MD5Hex(PartChunk("G", size, 1))
        stale2 == MD5Hex(Chunk("G", calculatePartSize(size), 1))
        mine(id) == [key |-> ObjectName, id |-> id]
        other(id) == [key |-> OtherName, id |-> id]
    IN { [uploads |-> <<>>, parts |-> Stored(NoEtag, NoEtag)],
         [uploads |-> <<mine(1)>>, parts |-> Stored(NoEtag, NoEtag)],
         [uploads |-> <<mine(1)>>, parts |-> Stored(good, NoEtag)],
         [uploads |-> <<mine(1)>>, parts |-> Stored(stale1, NoEtag)],
         [uploads |-> <<mine(1)>>, parts |-> Stored(good, stale2)],
         [uploads |-> <<mine(1)>>, parts |-> Stored(NoEtag, stale2)],
         [uploads |-> <<mine(1), mine(2)>>, parts |-> Stored(good, NoEtag)],
         [uploads |-> <<other(1), other(2)>>, parts |-> Stored(NoEtag, NoEtag)] }

\* The client before the first invocation, with its input: the entry point,
\* the size (declared for a stream, stat's for a file) and the number of
\* bytes the stream really delivers. Of the stream the model keeps whether
\* it is flowing (it has been piped), a lower bound streamPos of the bytes
\* it has emitted, and whether it has emitted 'error'. path is history:
\* which of the two upload paths the last invocation has taken; so is
\* httpFailed: an HTTP request of the invocation has ended with an error of
\* the transport or an unexpected status.
NewInv(api, size, actual) ==
    [n |-> 0, api |-> api, size |-> size, actual |-> actual, pc |-> "idle",
     path |-> "none", marker |-> NoMarker, cb |-> "none", failed |-> FALSE,
     httpFailed |-> FALSE,
     flowing |-> FALSE, streamPos |-> 0, streamError |-> FALSE]

InitUpload ==
    \E api \in Apis :
    \E size \in Sizes :
    \E actual \in (IF api = "put" THEN {size - 1, size, size + 1} \cap Nat
                  ELSE {size}) :
    \E pre \in Preexisting(size) :
        /\ srvUploads = pre.uploads
        /\ srvParts = pre.parts
        /\ srvObject = <<>>
        /\ inv = NewInv(api, size, actual)
        /\ pipes = [p \in Pipes |-> OffPipe]
        /\ puts = <<>>

\* The upload engine is not running (specification Spec).
NoUploads ==
    /\ srvUploads = <<>>
    /\ srvParts = [id \in UploadIds |-> NoParts]
    /\ srvObject = <<>>
    /\ inv = NewInv("put", minimumPartSize + 1, minimumPartSize + 1)
    /\ pipes = [p \in Pipes |-> OffPipe]
    /\ puts = <<>>

\* The caller's callback as async.waterfall wraps it: the first call goes
\* through, later ones are dropped. failed is history: a step before
\* completeMultipartUpload has failed.
Called(x) ==
    [inv EXCEPT !.cb = IF inv.cb = "none" THEN x ELSE inv.cb,
                !.failed = inv.failed \/ x = "err"]

\* The invocation after its callback got the error of an HTTP request:
\* makeRequest's or makeRequestStream's cb(e).
RequestFailed == [Called("err") EXCEPT !.httpFailed = TRUE]

\* No request is in flight and no run can take a step.
AtRest ==
    /\ inv.pc \in {"idle", "started"}
    /\ puts = <<>>
    /\ \A p \in Pipes : pipes[p].pc \in {"off", "done", "failed", "stalled"}

\* The caller invokes fPutObject: for the first time, or again for the same
\* file after an invocation that ended with an error.
CanInvoke ==
    /\ inv.n < MaxInvocations
    /\ inv.pc = "idle" \/ (inv.cb = "err" /\ AtRest)

\* The invocation's state when findUploadId sends its first listing query.
Finding ==
    [inv EXCEPT !.n = inv.n + 1, !.pc = "finding", !.path = "multipart",
                !.marker = NoMarker,
                !.cb = "none", !.failed = FALSE, !.httpFailed = FALSE,
                !.flowing = FALSE, !.streamPos = 0, !.streamError = FALSE]

\* The invocation's state when it takes the simple PUT, at pc: "concat"
\* while putObject's concater collects the stream, "hashing" while
\* fPutObject's hash summer reads the file.
Simple(pc) == [Finding EXCEPT !.pc = pc, !.path = "single"]

\* putObject(bucket, object, stream, size, contentType, cb): the simple PUT
\* when size <= minimumPartSize, else the waterfall that starts with
\* findUploadId. The stream is consumed by the invocation: there is no
\* second one with it.
PutObject ==
    /\ inv.api = "put"
    /\ inv.pc = "idle"
    /\ inv' = IF inv.size <= minimumPartSize
              THEN [Simple("concat") EXCEPT !.flowing = TRUE]
              ELSE Finding
    /\ pipes' = [p \in Pipes |-> OffPipe]
    /\ UNCHANGED <<srvUploads, srvParts, srvObject, puts, regionVars, getVars, made, callVars>>

\* fPutObject(bucket, object, filePath, contentType, callback): fs.stat,
\* the check of the size, then the simple PUT when size < minimumPartSize,
\* else findUploadId. statOk is whether fs.stat succeeds.
FPutObject(statOk) ==
    /\ inv.api = "fput"
    /\ CanInvoke
    /\ inv' = IF ~statOk \/ inv.size > maxObjectSize
              THEN [Finding EXCEPT !.pc = "started", !.path = "none",
                                   !.cb = "err", !.failed = TRUE]
              ELSE IF inv.size < minimumPartSize THEN Simple("hashing")
              ELSE Finding
    /\ pipes' = [p \in Pipes |-> OffPipe]
    /\ UNCHANGED <<srvUploads, srvParts, srvObject, puts, regionVars, getVars, made, callVars>>

\* The body of the simple PUT: the chunk the concater emits at the end of
\* the stream, which is all the bytes the stream has delivered; for a file
\* the bytes start..end of it.
Concat(actual) == Chunk("F", 0, actual)

SimpleBody == IF inv.api = "put" THEN Concat(inv.actual) ELSE Chunk("F", 0, inv.size)

\* putObject's 'data' handler of the concater: the stream has ended, the
\* uploader sends the PUT with Content-Length chunk.length.
ConcaterData ==
    /\ inv.pc = "concat"
    /\ ~inv.streamError
    /\ inv' = [inv EXCEPT !.pc = "putting", !.streamPos = inv.actual]
    /\ UNCHANGED <<srvUploads, srvParts, srvObject, pipes, puts, regionVars, getVars, made, callVars>>

\* fPutObject's 'data' handler of the hash summer: the file has been read,
\* the uploader sends the PUT with a second read stream of the file.
HashSummerData ==
    /\ inv.pc = "hashing"
    /\ inv' = [inv EXCEPT !.pc = "putting"]
    /\ UNCHANGED <<srvUploads, srvParts, srvObject, pipes, puts, regionVars, getVars, made, callVars>>

\* The 'error' handler of the simple PUT's pipeline: the stream or the
\* read of the file fails, the callback gets the error.
SimpleReadError ==
    /\ inv.pc \in {"concat", "hashing"}
    /\ inv' = [Called("err") EXCEPT !.pc = "started",
                                    !.streamError = inv.api = "put"]
    /\ UNCHANGED <<srvUploads, srvParts, srvObject, pipes, puts, regionVars, getVars, made, callVars>>

\* upload's callback of makeRequestStream, for the simple PUT answered
\* with 200: the server has the body as the object, the callback gets the
\* etag.
SimplePutResponse ==
    /\ inv.pc = "putting"
    /\ srvObject' = <<MD5Hex(SimpleBody)>>
    /\ inv' = [Called("ok") EXCEPT !.pc = "started"]
    /\ UNCHANGED <<srvUploads, srvParts, pipes, puts, regionVars, getVars, made, callVars>>

\* The same callback with an error: the request has failed.
SimplePutError ==
    /\ inv.pc = "putting"
    /\ inv' = [RequestFailed EXCEPT !.pc = "started"]
    /\ UNCHANGED <<srvUploads, srvParts, srvObject, pipes, puts, regionVars, getVars, made, callVars>>

\* The second step of the waterfall, run with uploadId: listParts for an
\* upload that was found, initiateNewMultipartUpload for undefined; in
\* removeIncompleteUpload the request DELETE ?uploadId=${uploadId}.
SecondStepInitiates(uploadId) == [OffPipe EXCEPT !.pc = "initiating"]

SecondStep(uploadId) ==
    IF inv.path = "remove"
    THEN [OffPipe EXCEPT !.pc = "deleting", !.uploadId = uploadId]
    ELSE IF uploadId # NoUpload
    THEN [OffPipe EXCEPT !.pc = "listParts", !.uploadId = uploadId]
    ELSE [OffPipe EXCEPT !.pc = "initiating"]

\* if (upload.key === objectName), for the uploads of a listing with
\* prefix objectName: each of their keys starts with objectName.
KeyFoundByPrefix(key) == TRUE

KeyFound(key) == key = ObjectName

\* .on('data', result => ...) of findUploadId, for a page of k uploads.
FindUploadIdPage(k) ==
    /\ inv.pc = "finding"
    /\ LET rest == UploadsAfter(inv.marker)
           page == SubSeq(rest, 1, k)
           isTruncated == k < Len(rest)
           found == SelectSeq(page, LAMBDA u : KeyFound(u.key))
       IN /\ k \in (IF rest = <<>> THEN {0} ELSE 1..Len(rest))
          /\ IF found # <<>>
             THEN /\ pipes' = [p \in Pipes |-> IF p <= Len(found)
                                               THEN SecondStep(found[p].id)
                                               ELSE OffPipe]
                  /\ inv' = [inv EXCEPT !.pc = "started"]
             ELSE IF isTruncated
             THEN /\ inv' = [inv EXCEPT !.marker = page[k]]
                  /\ UNCHANGED pipes
             ELSE /\ pipes' = [pipes EXCEPT ![1] = SecondStep(NoUpload)]
                  /\ inv' = [inv EXCEPT !.pc = "started"]
    /\ UNCHANGED <<srvUploads, srvParts, srvObject, puts, regionVars, getVars, made, callVars>>

\* .on('error', e => cb(e)) of findUploadId.
FindUploadIdError ==
    /\ inv.pc = "finding"
    /\ inv' = [RequestFailed EXCEPT !.pc = "started"]
    /\ UNCHANGED <<srvUploads, srvParts, srvObject, pipes, puts, regionVars, getVars, made, callVars>>

\* Where a run of putObject's third step finds the stream when it pipes it
\* into its chunker: untouched; or flowing, with the bytes another run has
\* taken or more emitted, and when all are emitted with or without 'end'
\* emitted; or over after 'error'. fPutObject reads the file from the start.
Attachments ==
    IF inv.api = "fput" \/ ~inv.flowing THEN {[pos |-> 0, over |-> FALSE]}
    ELSE IF inv.streamError THEN {[pos |-> inv.streamPos, over |-> TRUE]}
    ELSE [pos : inv.streamPos..inv.actual, over : {FALSE}]
         \cup {[pos |-> inv.actual, over |-> TRUE]}

\* The third step of the waterfall, run with uploadId and etags. putObject
\* pipes the stream into chunker, sizeVerifier and chunkUploader: a stream
\* that is over has no event left for them. fPutObject starts the loop
\* over the parts.
ThirdStep(p, uploadId, etags, at) ==
    [pipes[p] EXCEPT !.pc = IF at.over THEN "stalled" ELSE "parts",
                     !.uploadId = uploadId,
                     !.etags = etags,
                     !.partsDone = <<>>,
                     !.partNumber = 1,
                     !.uploadedSize = 0,
                     !.aggregatedSize = 0,
                     !.attachPos = at.pos]

\* The stream starts to flow when it is piped.
Piped(at) ==
    IF inv.api = "fput" THEN inv
    ELSE [inv EXCEPT !.flowing = TRUE, !.streamPos = at.pos]

\* The callback of listPartsQuery in listParts, for a page of k parts.
ListPartsPage(p, k, at) ==
    /\ pipes[p].pc = "listParts"
    /\ at \in Attachments
    /\ LET rest == ListedParts(pipes[p].uploadId, pipes[p].marker)
           page == SubSeq(rest, 1, k)
           isTruncated == k < Len(rest)
           parts == pipes[p].etags \o page
       IN /\ k \in (IF rest = <<>> THEN {0} ELSE 1..Len(rest))
          /\ IF isTruncated
             THEN /\ pipes' = [pipes EXCEPT ![p].etags = parts,
                                            ![p].marker = page[k].part]
                  /\ UNCHANGED inv
             ELSE /\ pipes' = [pipes EXCEPT ![p] =
                                  ThirdStep(p, pipes[p].uploadId, parts, at)]
                  /\ inv' = Piped(at)
    /\ UNCHANGED <<srvUploads, srvParts, srvObject, puts, regionVars, getVars, made, callVars>>

\* A run that has called the waterfall's cb with an error: nothing of it
\* is used any more.
Failed(pipe) == [OffPipe EXCEPT !.pc = "failed", !.uploadId = pipe.uploadId]

\* A step of run p calls the waterfall's cb with an error.
Fails(p) ==
    /\ pipes' = [pipes EXCEPT ![p] = Failed(pipes[p])]
    /\ inv' = Called("err")

\* if (e) { cb(e); return } in listParts.
ListPartsError(p) ==
    /\ pipes[p].pc = "listParts"
    /\ pipes' = [pipes EXCEPT ![p] = Failed(pipes[p])]
    /\ inv' = RequestFailed
    /\ UNCHANGED <<srvUploads, srvParts, srvObject, puts, regionVars, getVars, made, callVars>>

\* .on('data', uploadId => cb(null, uploadId)) of
\* initiateNewMultipartUpload: the server has created the upload.
InitiateResponse(p, at) ==
    /\ pipes[p].pc = "initiating"
    /\ at \in Attachments
    /\ LET uploadId == 2 + inv.n
       IN /\ srvUploads' = WithUpload([key |-> ObjectName, id |-> uploadId])
          /\ pipes' = [pipes EXCEPT ![p] = ThirdStep(p, uploadId, <<>>, at)]
          /\ inv' = Piped(at)
    /\ UNCHANGED <<srvParts, srvObject, puts, regionVars, getVars, made, callVars>>

\* if (e) return cb(e) in initiateNewMultipartUpload.
InitiateError(p) ==
    /\ pipes[p].pc = "initiating"
    /\ pipes' = [pipes EXCEPT ![p] = Failed(pipes[p])]
    /\ inv' = RequestFailed
    /\ UNCHANGED <<srvUploads, srvParts, srvObject, puts, regionVars, getVars, made, callVars>>

\* if (part && (md5sumhex === part.etag)): the part is on the server with
\* the digest of the local chunk.
AlreadyUploadedNever(part, md5sumhex) == FALSE

AlreadyUploadedAny(part, md5sumhex) == part # NoEtag

AlreadyUploaded(part, md5sumhex) == part # NoEtag /\ md5sumhex = part

\* partNumber++
NextPartNumberSame(partNumber) == partNumber

NextPartNumber(partNumber) == partNumber + 1

\* The callback that lets the next chunk in is called by the uploader's
\* callback, not when the request is sent: until then the run is busy.
BusyWhileUploadingNot == FALSE

BusyWhileUploading == TRUE

\* The request uploader(uploadId, partNumber, stream, length, sha256sum,
\* md5sum, cb) sends: PUT ?partNumber=..&uploadId=.. with Content-MD5.
PartPut(p, body, md5sum) ==
    [pipe |-> p, uploadId |-> pipes[p].uploadId,
     partNumber |-> pipes[p].partNumber, body |-> body, md5 |-> md5sum]

\* partsDone.push({part, etag}), with the history fields.
Pushed(p, part, etag, len, sent) ==
    Append(pipes[p].partsDone,
           [part |-> part, etag |-> etag, len |-> len, sent |-> sent])

\* The fourth step of the waterfall: completeMultipartUpload is sent with
\* the parts of partsDone.
Completing(pipe) == [pipe EXCEPT !.pc = "completing"]

\* The bytes of the stream that run p has taken through sizeVerifier.
Consumed(p) == SumLen(pipes[p].partsDone) + pipes[p].aggregatedSize

\* The block that the chunker (BlockStream2 of size minimumPartSize, no
\* padding) hands run p next: a full block, or what is left when the stream
\* ends; 0 when run p has taken all bytes.
NextBlock(p) ==
    LET left == inv.actual - (pipes[p].attachPos + Consumed(p))
    IN IF left >= minimumPartSize THEN minimumPartSize ELSE left

\* The source stream emits 'error' before a run has taken all its bytes:
\* pipesetup passes it down every pipeline the stream is piped into,
\* .on('error', e => cb(e)).
StreamError ==
    /\ inv.api = "put"
    /\ ~inv.streamError
    /\ \E p \in Pipes : pipes[p].pc = "parts" /\ NextBlock(p) > 0
    /\ pipes' = [p \in Pipes |-> IF pipes[p].pc = "parts" THEN Failed(pipes[p])
                                 ELSE pipes[p]]
    /\ inv' = [Called("err") EXCEPT !.streamError = TRUE]
    /\ UNCHANGED <<srvUploads, srvParts, srvObject, puts, regionVars, getVars, made, callVars>>

\* sizeVerifier (getSizeVerifierTransformer(size)): its transform function
\* fails when the bytes that have passed exceed size, its flush function
\* when they are not size.
SizeExceeded(totalSize) == totalSize > inv.size

SizeMismatch(totalSize) == totalSize # inv.size

\* The stream has emitted the bytes that run p has taken.
Taken(p, length) ==
    LET pos == pipes[p].attachPos + Consumed(p) + length
    IN [inv EXCEPT !.streamPos = IF pos > inv.streamPos THEN pos ELSE inv.streamPos]

\* The transform functions of sizeVerifier and of chunkUploader for the
\* next block of run p.
ChunkUploaderTransform(p) ==
    /\ inv.api = "put"
    /\ pipes[p].pc = "parts"
    /\ ~pipes[p].busy
    /\ NextBlock(p) > 0
    /\ LET length == NextBlock(p)
           totalSize == Consumed(p) + length
           multipartSize == calculatePartSize(inv.size)
           aggregatedSize == pipes[p].aggregatedSize + length
           done == \/ aggregatedSize = multipartSize
                   \/ aggregatedSize < multipartSize /\ length < minimumPartSize
           partNumber == pipes[p].partNumber
           part == PartsOf(pipes[p].etags)[partNumber]
           body == Chunk("F", pipes[p].attachPos + SumLen(pipes[p].partsDone),
                         aggregatedSize)
           md5sumhex == MD5Hex(body)
       IN IF \/ SizeExceeded(totalSize)
             \/ length > minimumPartSize
             \/ aggregatedSize > multipartSize
          THEN Fails(p) /\ UNCHANGED puts
          ELSE IF ~done
          THEN /\ pipes' = [pipes EXCEPT ![p].aggregatedSize = aggregatedSize]
               /\ inv' = Taken(p, length)
               /\ UNCHANGED puts
          ELSE IF AlreadyUploaded(part, md5sumhex)
          THEN /\ pipes' = [pipes EXCEPT
                    ![p].partsDone = Pushed(p, partNumber, part, aggregatedSize, FALSE),
                    ![p].partNumber = NextPartNumber(partNumber),
                    ![p].aggregatedSize = 0]
               /\ inv' = Taken(p, length)
               /\ UNCHANGED puts
          ELSE /\ pipes' = [pipes EXCEPT
                    ![p].aggregatedSize = aggregatedSize,
                    ![p].busy = BusyWhileUploading,
                    ![p].putLog = Append(pipes[p].putLog, partNumber)]
               /\ puts' = Append(puts, PartPut(p, body, HexToBase64(md5sumhex)))
               /\ inv' = Taken(p, length)
    /\ UNCHANGED <<srvUploads, srvParts, srvObject, regionVars, getVars, made, callVars>>

\* The stream has ended and run p has taken its last block: the flush
\* functions of sizeVerifier, which compares the total with size, and of
\* chunkUploader, which emits partsDone.
ChunkUploaderFlush(p) ==
    /\ inv.api = "put"
    /\ pipes[p].pc = "parts"
    /\ ~pipes[p].busy
    /\ NextBlock(p) = 0
    /\ IF SizeMismatch(Consumed(p))
       THEN Fails(p)
       ELSE /\ pipes' = [pipes EXCEPT ![p] = Completing(pipes[p])]
            /\ UNCHANGED inv
    /\ UNCHANGED <<srvUploads, srvParts, srvObject, puts, regionVars, getVars, made, callVars>>

\* One pass of fPutObject's loop over the parts, at .on('data') of the hash
\* of the chunk: the chunk is on the server already, or it is sent.
FPutPart(p) ==
    /\ inv.api = "fput"
    /\ pipes[p].pc = "parts"
    /\ ~pipes[p].busy
    /\ LET partSize == calculatePartSize(inv.size)
           uploadedSize == pipes[p].uploadedSize
           length == Min(partSize, inv.size - uploadedSize)
           partNumber == pipes[p].partNumber
           part == PartsOf(pipes[p].etags)[partNumber]
           body == Chunk("F", uploadedSize, length)
           md5sum == MD5Base64(body)
           md5sumhex == Base64ToHex(md5sum)
       IN IF AlreadyUploaded(part, md5sumhex)
          THEN /\ LET pipe == [pipes[p] EXCEPT
                        !.partsDone = Pushed(p, partNumber, part, length, FALSE),
                        !.partNumber = NextPartNumber(partNumber),
                        !.uploadedSize = uploadedSize + length]
                  IN pipes' = [pipes EXCEPT ![p] =
                        IF pipe.uploadedSize < inv.size THEN pipe
                        ELSE Completing(pipe)]
               /\ UNCHANGED puts
          ELSE /\ pipes' = [pipes EXCEPT
                    ![p].busy = BusyWhileUploading,
                    ![p].putLog = Append(pipes[p].putLog, partNumber)]
               /\ puts' = Append(puts, PartPut(p, body, md5sum))
    /\ UNCHANGED <<srvUploads, srvParts, srvObject, inv, regionVars, getVars, made, callVars>>

\* .on('error', e => cb(e)) of the hash of a chunk of the file.
FPutReadError(p) ==
    /\ inv.api = "fput"
    /\ pipes[p].pc = "parts"
    /\ ~pipes[p].busy
    /\ Fails(p)
    /\ UNCHANGED <<srvUploads, srvParts, srvObject, puts, regionVars, getVars, made, callVars>>

\* puts without its i-th request.
Answered(i) == SubSeq(puts, 1, i - 1) \o SubSeq(puts, i + 1, Len(puts))

\* The uploader's callback for the i-th part PUT in flight, with status
\* 200: the server has checked Content-MD5 and stored the part, the ETag
\* header without its quotes is the etag; partsDone.push, partNumber++, and
\* the next chunk is let in. fPutObject's loop ends when uploadedSize has
\* reached size.
PutPartResponse(i) ==
    /\ i \in 1..Len(puts)
    /\ LET r == puts[i]
           p == r.pipe
           etag == StripQuotes(ETagHeader(r.body))
           chunked == [pipes[p] EXCEPT
                !.partsDone = Pushed(p, pipes[p].partNumber, etag,
                                     pipes[p].aggregatedSize, TRUE),
                !.partNumber = NextPartNumber(pipes[p].partNumber),
                !.aggregatedSize = 0,
                !.busy = FALSE]
           looped == [pipes[p] EXCEPT
                !.partsDone = Pushed(p, pipes[p].partNumber, etag, r.body.len, TRUE),
                !.partNumber = NextPartNumber(pipes[p].partNumber),
                !.uploadedSize = pipes[p].uploadedSize + r.body.len,
                !.busy = FALSE]
       IN /\ r.md5 = MD5Base64(r.body)
          /\ srvParts' = [srvParts EXCEPT ![r.uploadId][r.partNumber] = MD5Hex(r.body)]
          /\ pipes' = [pipes EXCEPT ![p] =
                IF pipes[p].pc # "parts" THEN pipes[p]
                ELSE IF inv.api = "put" THEN chunked
                ELSE IF looped.uploadedSize < inv.size THEN looped
                ELSE Completing(looped)]
    /\ puts' = Answered(i)
    /\ UNCHANGED <<srvUploads, srvObject, inv, regionVars, getVars, made, callVars>>

\* The uploader's callback for the i-th part PUT in flight, with an error
\* (unexpected status, transport): if (e) return cb(e).
PutPartError(i) ==
    /\ i \in 1..Len(puts)
    /\ pipes' = [pipes EXCEPT ![puts[i].pipe] = Failed(pipes[puts[i].pipe])]
    /\ inv' = RequestFailed
    /\ puts' = Answered(i)
    /\ UNCHANGED <<srvUploads, srvParts, srvObject, regionVars, getVars, made, callVars>>

\* The server assembles the object from the parts of a
\* CompleteMultipartUpload body if each is stored with the ETag given, in
\* ascending order.
Assembles(id, parts) ==
    /\ parts # <<>>
    /\ \A i \in 1..Len(parts) :
          /\ parts[i].part \in PartNumbers
          /\ srvParts[id][parts[i].part] = parts[i].etag
          /\ \A j \in 1..(i - 1) : parts[j].part < parts[i].part

\* .on('data', result => cb(null, result.etag)) of completeMultipartUpload:
\* the server has assembled the object and dropped the upload; the
\* caller's callback gets the etag.
CompleteResponse(p) ==
    /\ pipes[p].pc = "completing"
    /\ Assembles(pipes[p].uploadId, pipes[p].partsDone)
    /\ srvObject' = [i \in 1..Len(pipes[p].partsDone) |-> pipes[p].partsDone[i].etag]
    /\ srvUploads' = WithoutUpload(pipes[p].uploadId)
    /\ srvParts' = [srvParts EXCEPT ![pipes[p].uploadId] = NoParts]
    /\ pipes' = [pipes EXCEPT ![p].pc = "done"]
    /\ inv' = Called("ok")
    /\ UNCHANGED <<puts, regionVars, getVars, made, callVars>>

\* if (e) return cb(e) of completeMultipartUpload.
CompleteError(p) ==
    /\ pipes[p].pc = "completing"
    /\ pipes' = [pipes EXCEPT ![p] = Failed(pipes[p])]
    /\ inv' = [RequestFailed EXCEPT !.failed = inv.failed]
    /\ UNCHANGED <<srvUploads, srvParts, srvObject, puts, regionVars, getVars, made, callVars>>

\* removeIncompleteUpload(bucketName, objectName, cb): the waterfall of
\* findUploadId and the DELETE request; called before an upload, or after
\* the callback of an upload or of an earlier removeIncompleteUpload.
RemoveIncompleteUpload ==
    /\ inv.n < MaxInvocations
    /\ inv.pc = "idle" \/ (inv.cb # "none" /\ AtRest)
    /\ inv' = [Finding EXCEPT !.path = "remove"]
    /\ pipes' = [p \in Pipes |-> OffPipe]
    /\ UNCHANGED <<srvUploads, srvParts, srvObject, puts, regionVars, getVars, made, callVars>>

\* The callback of the DELETE request of run p with status 204: the server
\* had the upload and has dropped it with its parts; cb(null).
DeleteResponse(p) ==
    /\ pipes[p].pc = "deleting"
    /\ \E i \in 1..Len(srvUploads) : srvUploads[i].id = pipes[p].uploadId
    /\ srvUploads' = WithoutUpload(pipes[p].uploadId)
    /\ srvParts' = [srvParts EXCEPT ![pipes[p].uploadId] = NoParts]
    /\ pipes' = [pipes EXCEPT ![p].pc = "done"]
    /\ inv' = Called("ok")
    /\ UNCHANGED <<srvObject, puts, regionVars, getVars, made, callVars>>

\* The same callback with an error: of the transport, or a status other
\* than 204, which is what the server has for an uploadId it does not know.
DeleteError(p) ==
    /\ pipes[p].pc = "deleting"
    /\ pipes' = [pipes EXCEPT ![p] = Failed(pipes[p])]
    /\ inv' = RequestFailed
    /\ UNCHANGED <<srvUploads, srvParts, srvObject, puts, regionVars, getVars, made, callVars>>

NextUpload ==
    \/ PutObject
    \/ \E statOk \in BOOLEAN : FPutObject(statOk)
    \/ ConcaterData
    \/ HashSummerData
    \/ SimpleReadError
    \/ SimplePutResponse
    \/ SimplePutError
    \/ \E k \in 0..Len(srvUploads) : FindUploadIdPage(k)
    \/ FindUploadIdError
    \/ StreamError
    \/ \E i \in 1..Len(puts) : PutPartResponse(i) \/ PutPartError(i)
    \/ \E p \in Pipes :
          \/ \E k \in 0..maxPartsCount, at \in Attachments : ListPartsPage(p, k, at)
          \/ ListPartsError(p)
          \/ \E at \in Attachments : InitiateResponse(p, at)
          \/ InitiateError(p)
          \/ ChunkUploaderTransform(p)
          \/ ChunkUploaderFlush(p)
          \/ FPutPart(p)
          \/ FPutReadError(p)
          \/ CompleteResponse(p)
          \/ CompleteError(p)

\* ------------------------------------------------------------------------
\* fGetObject: the download of an object into a file
\* ------------------------------------------------------------------------

\* The sizes of the object on the server are 0..MaxGetSize.
MaxGetSize == 3

\* fs.stat of a file that does not exist fails; the offset of a call that
\* has not computed one.
NoFile == -1

NoOffset == -1

\* path.dirname(filePath): "." for a file of the current directory.
Dirs == {".", "dir"}

\* Range and expected status of getPartialObject(bucket, object, offset,
\* length, cb): no Range header and 200 for offset 0 and length 0, else
\* "bytes=offset-" (up to offset + length - 1 when there is a length) and
\* 206. last is NoOffset for an open range.
NoRange == [first |-> NoOffset, last |-> NoOffset]

\* A range whose last byte is offset + length.
GetPartialObjectPastEnd(offset, length) ==
    LET range == IF offset # 0 \/ length # 0
                 THEN [first |-> offset,
                       last |-> IF length # 0 THEN length + offset ELSE NoOffset]
                 ELSE NoRange
    IN [range |-> range, expectedStatus |-> IF range # NoRange THEN 206 ELSE 200]

GetPartialObject(offset, length) ==
    LET range == IF offset # 0 \/ length # 0
                 THEN [first |-> offset,
                       last |-> IF length # 0 THEN (length + offset) - 1 ELSE NoOffset]
                 ELSE NoRange
    IN [range |-> range, expectedStatus |-> IF range # NoRange THEN 206 ELSE 200]

NoRequest == [range |-> NoRange, expectedStatus |-> 0]

\* The server's answer to a GET of an object of size bytes: the whole
\* object with 200, the bytes from first on with 206, 416 for a range that
\* starts behind the object.
GetStatus(size, request) ==
    IF request.range = NoRange THEN 200
    ELSE IF request.range.first < size THEN 206
    ELSE 416

GetLength(size, request) ==
    IF request.range = NoRange THEN size ELSE size - request.range.first

NewGet(dir, size, partFile0) ==
    [pc |-> "idle", dir |-> dir, size |-> size, partFile0 |-> partFile0,
     partFile |-> FALSE, partSize |-> partFile0, fileSize |-> NoFile,
     flags |-> "none", cbDefined |-> TRUE, offset |-> NoOffset,
     request |-> NoRequest, left |-> 0, gets |-> 0, renames |-> 0,
     err |-> "none", cb |-> "none"]

InitGet ==
    \E dir \in Dirs, size \in 0..MaxGetSize, partFile0 \in {NoFile} \cup (0..(MaxGetSize + 1)) :
        get = NewGet(dir, size, partFile0)

\* fGetObject is not running (specifications Spec and SpecUpload).
NoDownload == get = NewGet("dir", 0, NoFile)

\* rename, the wrapper that is the last argument of async.waterfall: it
\* takes no argument, so the error of the waterfall is dropped, and calls
\* fs.rename(partFile, filePath, cb). e is the error the waterfall ends
\* with, "none" for no error.
Rename(g, e) == [g EXCEPT !.pc = "renaming", !.err = e, !.renames = g.renames + 1]

\* fGetObject(bucketName, objectName, filePath, cb): the waterfall starts
\* with statObject.
FGetObject ==
    /\ get.pc = "idle"
    /\ get' = [get EXCEPT !.pc = "statObject"]
    /\ UNCHANGED <<regionVars, uploadVars, made, callVars>>

\* statObject fails: the waterfall ends with the error.
StatObjectError ==
    /\ get.pc = "statObject"
    /\ get' = Rename(get, "statObject")
    /\ UNCHANGED <<regionVars, uploadVars, made, callVars>>

\* The second step, with statObject's result: cb() without an argument for
\* the current directory, which runs the third step with the step's
\* callback as its first argument and no second one; else mkdirp(dir, cb).
StatObjectResult ==
    /\ get.pc = "statObject"
    /\ get' = IF get.dir = "."
              THEN [get EXCEPT !.pc = "stat", !.partFile = TRUE, !.cbDefined = FALSE]
              ELSE [get EXCEPT !.pc = "mkdirp"]
    /\ UNCHANGED <<regionVars, uploadVars, made, callVars>>

\* mkdirp calls back with the first directory made: the third step runs
\* with (made, cb).
MkdirpDone ==
    /\ get.pc = "mkdirp"
    /\ get' = [get EXCEPT !.pc = "stat", !.partFile = TRUE]
    /\ UNCHANGED <<regionVars, uploadVars, made, callVars>>

MkdirpError ==
    /\ get.pc = "mkdirp"
    /\ get' = Rename(get, "mkdirp")
    /\ UNCHANGED <<regionVars, uploadVars, made, callVars>>

\* The third step's callback of fs.stat(partFile): no part file, offset 0
\* and a stream that writes a new file; a part file of the object's size,
\* rename; else the part file's size as offset and a stream that appends.
\* getPartialObject throws a TypeError for a cb that is not a function.
StatPartFile ==
    /\ get.pc = "stat"
    /\ LET e == get.partSize = NoFile
           offset == IF e THEN 0 ELSE get.partSize
           opened == [get EXCEPT !.flags = IF e THEN "w" ELSE "a",
                                 !.partSize = IF e THEN 0 ELSE get.partSize,
                                 !.offset = offset]
       IN get' = IF ~e /\ get.size = get.partSize THEN Rename(get, "none")
                 ELSE IF ~get.cbDefined THEN [opened EXCEPT !.pc = "thrown"]
                 ELSE [opened EXCEPT !.pc = "getting",
                                     !.request = GetPartialObject(offset, 0),
                                     !.gets = get.gets + 1]
    /\ UNCHANGED <<regionVars, uploadVars, made, callVars>>

\* makeRequest's callback for the GET: the response with the expected
\* status is the download stream of the fourth step, which pipes it into
\* partFileStream.
GetResponse ==
    /\ get.pc = "getting"
    /\ GetStatus(get.size, get.request) = get.request.expectedStatus
    /\ get' = [get EXCEPT !.pc = "piping", !.left = GetLength(get.size, get.request)]
    /\ UNCHANGED <<regionVars, uploadVars, made, callVars>>

\* The GET fails: an unexpected status or an error of the transport.
GetError ==
    /\ get.pc = "getting"
    /\ get' = Rename(get, "getPartialObject")
    /\ UNCHANGED <<regionVars, uploadVars, made, callVars>>

\* 'finish' of the pipe after n bytes: all the bytes of the response, or
\* fewer when the response has ended early.
PipeFinish(n) ==
    /\ get.pc = "piping"
    /\ n \in 0..get.left
    /\ get' = [get EXCEPT !.pc = "statAgain", !.partSize = get.partSize + n,
                          !.left = get.left - n]
    /\ UNCHANGED <<regionVars, uploadVars, made, callVars>>

\* 'error' of the pipe after n bytes.
PipeError(n) ==
    /\ get.pc = "piping"
    /\ n \in 0..get.left
    /\ get' = [Rename(get, "pipe") EXCEPT !.partSize = get.partSize + n,
                                         !.left = get.left - n]
    /\ UNCHANGED <<regionVars, uploadVars, made, callVars>>

\* The fifth and the sixth step: fs.stat(partFile, cb), then the
\* comparison of its size with the object's.
StatAgain ==
    /\ get.pc = "statAgain"
    /\ get' = Rename(get, IF get.partSize = get.size THEN "none" ELSE "sizeMismatch")
    /\ UNCHANGED <<regionVars, uploadVars, made, callVars>>

StatAgainError ==
    /\ get.pc = "statAgain"
    /\ get' = Rename(get, "stat")
    /\ UNCHANGED <<regionVars, uploadVars, made, callVars>>

\* fs.rename(partFile, filePath, cb) succeeds: the part file is the file
\* at filePath, the callback gets no error. It cannot for a partFile that
\* is undefined.
FsRename ==
    /\ get.pc = "renaming"
    /\ get.partFile
    /\ get' = [get EXCEPT !.pc = "ended", !.fileSize = get.partSize,
                          !.partSize = NoFile, !.cb = "ok"]
    /\ UNCHANGED <<regionVars, uploadVars, made, callVars>>

\* fs.rename fails and the callback gets its error; for a partFile that is
\* undefined it may throw a TypeError instead: no callback.
FsRenameError(throws) ==
    /\ get.pc = "renaming"
    /\ throws => ~get.partFile
    /\ get' = [get EXCEPT !.pc = IF throws THEN "thrown" ELSE "ended",
                          !.cb = IF throws THEN "none" ELSE "renameError"]
    /\ UNCHANGED <<regionVars, uploadVars, made, callVars>>

NextGet ==
    \/ FGetObject
    \/ StatObjectError
    \/ StatObjectResult
    \/ MkdirpDone
    \/ MkdirpError
    \/ StatPartFile
    \/ GetResponse
    \/ GetError
    \/ \E n \in 0..MaxGetSize : PipeFinish(n) \/ PipeError(n)
    \/ StatAgain
    \/ StatAgainError
    \/ FsRename
    \/ \E throws \in BOOLEAN : FsRenameError(throws)

\* ------------------------------------------------------------------------
\* makeBucket: the request
\* ------------------------------------------------------------------------

\* The canned ACLs, and the values of the argument acl: one of them, the
\* empty string, another string.
ValidACLs == {"private", "public-read", "public-read-write", "authenticated-read"}

Acls == ValidACLs \cup {"", "public"}

\* The values of the argument region.
Regions == {"", "us-east-1", "us-west-1", "eu-west-1", "eu-central-1"}

\* var payload = '': nothing is written to the request.
EmptyPayload == <<>>

\* The payload of makeBucket for region: the XML of a
\* CreateBucketConfiguration with LocationConstraint region when region is
\* not the empty string.
Payload(region) ==
    IF region # ""
    THEN <<"CreateBucketConfiguration", "LocationConstraint", region>>
    ELSE EmptyPayload

NewMade(acl, region) ==
    [pc |-> "idle", acl |-> acl, region |-> region, header |-> "",
     payload |-> EmptyPayload, sig |-> NoRegion, cb |-> "none"]

InitMade == \E acl \in Acls, region \in Regions : made = NewMade(acl, region)

\* makeBucket is not running (the other specifications).
NoMakeBucket == made = NewMade("", "")

\* makeBucket(bucketName, acl, region, cb): the default of acl and its
\* check, the payload, the request signed with us-east-1 and written.
MakeBucketRequest ==
    /\ made.pc = "idle"
    /\ LET acl == IF made.acl = "" THEN "private" ELSE made.acl
       IN made' = IF acl \notin ValidACLs
                  THEN [made EXCEPT !.pc = "thrown"]
                  ELSE [made EXCEPT !.pc = "sending", !.header = acl,
                                    !.payload = Payload(made.region),
                                    !.sig = DefaultRegion]
    /\ UNCHANGED <<regionVars, uploadVars, getVars, callVars>>

\* The response with status 200: cb().
MakeBucketResponse ==
    /\ made.pc = "sending"
    /\ made' = [made EXCEPT !.pc = "ended", !.cb = "ok"]
    /\ UNCHANGED <<regionVars, uploadVars, getVars, callVars>>

\* The response with another status: the body goes through the error
\* transformer.
MakeBucketStatusError ==
    /\ made.pc = "sending"
    /\ made' = [made EXCEPT !.pc = "errBody"]
    /\ UNCHANGED <<regionVars, uploadVars, getVars, callVars>>

\* cb(e): of the error transformer, or req.on('error').
MakeBucketError ==
    /\ made.pc \in {"sending", "errBody"}
    /\ made' = [made EXCEPT !.pc = "ended", !.cb = "err"]
    /\ UNCHANGED <<regionVars, uploadVars, getVars, callVars>>

NextMakeBucket ==
    \/ MakeBucketRequest
    \/ MakeBucketResponse
    \/ MakeBucketStatusError
    \/ MakeBucketError

\* ------------------------------------------------------------------------
\* Calls whose result depends on their arguments only: getBucketACL's
\* reduction of the grants, getPartialObject's request, calculatePartSize
\* ------------------------------------------------------------------------

\* The largest offset and length of getPartialObject, and by how much the
\* argument of calculatePartSize may exceed maxObjectSize.
MaxRange == 3

MaxOver == 2

\* The grants of an access control list as the ACL transformer emits them:
\* the grantee's group (or a user, who has no group URI) and the permission.
AllUsers == "http://acs.amazonaws.com/groups/global/AllUsers"

AuthenticatedUsers == "http://acs.amazonaws.com/groups/global/AuthenticatedUsers"

Grants == [uri : {AllUsers, AuthenticatedUsers, "user"},
           permission : {"READ", "WRITE", "FULL_CONTROL"}]

\* data.acl.reduce(...): the four flags of the grants.
Perm(acl) ==
    [publicRead |-> [uri |-> AllUsers, permission |-> "READ"] \in acl,
     publicWrite |-> [uri |-> AllUsers, permission |-> "WRITE"] \in acl,
     authenticatedRead |-> [uri |-> AuthenticatedUsers, permission |-> "READ"] \in acl,
     authenticatedWrite |-> [uri |-> AuthenticatedUsers, permission |-> "WRITE"] \in acl]

\* A reduction that looks at the grants of AllUsers only.
CannedACLPublic(perm) ==
    IF perm.publicRead /\ perm.publicWrite THEN "public-read-write"
    ELSE IF perm.publicRead THEN "public-read"
    ELSE IF ~perm.publicWrite THEN "private"
    ELSE "unsupported-acl"

\* var cannedACL = 'unsupported-acl'; if (...) ... else if (...) ...
CannedACL(perm) ==
    IF /\ perm.publicRead /\ perm.publicWrite
       /\ ~perm.authenticatedRead /\ ~perm.authenticatedWrite
    THEN "public-read-write"
    ELSE IF /\ perm.publicRead /\ ~perm.publicWrite
            /\ ~perm.authenticatedRead /\ ~perm.authenticatedWrite
    THEN "public-read"
    ELSE IF /\ ~perm.publicRead /\ ~perm.publicWrite
            /\ perm.authenticatedRead /\ ~perm.authenticatedWrite
    THEN "authenticated-read"
    ELSE IF /\ ~perm.publicRead /\ ~perm.publicWrite
            /\ ~perm.authenticatedRead /\ ~perm.authenticatedWrite
    THEN "private"
    ELSE "unsupported-acl"

NewCall(api, arg) == [api |-> api, pc |-> "idle", arg |-> arg, result |-> "none"]

\* No such call is made (the other specifications).
NoCall == call = NewCall("none", <<>>)

InitCall ==
    \/ \E acl \in SUBSET Grants : call = NewCall("getBucketACL", [acl |-> acl])
    \/ \E offset \in 0..MaxRange, length \in 0..MaxRange :
           call = NewCall("getPartialObject", [offset |-> offset, length |-> length])
    \/ \E size \in 0..(maxObjectSize + MaxOver) :
           call = NewCall("calculatePartSize", [size |-> size])

\* getBucketACL: .on('data', data => ...) reduces data.acl and calls
\* cb(null, cannedACL).
CallGetBucketACL ==
    /\ call.api = "getBucketACL" /\ call.pc = "idle"
    /\ call' = [call EXCEPT !.pc = "done", !.result = CannedACL(Perm(call.arg.acl))]
    /\ UNCHANGED <<regionVars, uploadVars, getVars, made, policy, cu, rq>>

\* getPartialObject(bucketName, objectName, offset, length, cb): the Range
\* header and the expected status it hands to makeRequest.
CallGetPartialObject ==
    /\ call.api = "getPartialObject" /\ call.pc = "idle"
    /\ call' = [call EXCEPT !.pc = "done",
                            !.result = GetPartialObject(call.arg.offset, call.arg.length)]
    /\ UNCHANGED <<regionVars, uploadVars, getVars, made, policy, cu, rq>>

\* calculatePartSize(size): throws a TypeError for a size above
\* maxObjectSize.
CallCalculatePartSize ==
    /\ call.api = "calculatePartSize" /\ call.pc = "idle"
    /\ call' = IF call.arg.size > maxObjectSize
               THEN [call EXCEPT !.pc = "thrown", !.result = "TypeError"]
               ELSE [call EXCEPT !.pc = "done",
                                 !.result = calculatePartSize(call.arg.size)]
    /\ UNCHANGED <<regionVars, uploadVars, getVars, made, policy, cu, rq>>

NextCall ==
    \/ CallGetBucketACL
    \/ CallGetPartialObject
    \/ CallCalculatePartSize

\* ------------------------------------------------------------------------
\* PostPolicy and presignedPostPolicy
\* ------------------------------------------------------------------------

\* The most calls of setters on one PostPolicy.
MaxSetterCalls == 3

\* The fields of formData, and the entry of a field that is not set.
FormFields == {"key", "bucket", "Content-Type", "x-amz-date", "x-amz-algorithm",
               "x-amz-credential", "policy", "x-amz-signature"}

Undefined == "undefined"

\* The field of formData a condition ['eq', '$field', value] names.
FieldOf(name) ==
    CASE name = "$key" -> "key"
      [] name = "$bucket" -> "bucket"
      [] name = "$Content-Type" -> "Content-Type"
      [] name = "$x-amz-date" -> "x-amz-date"
      [] name = "$x-amz-algorithm" -> "x-amz-algorithm"
      [] name = "$x-amz-credential" -> "x-amz-credential"

\* new PostPolicy(): this.policy = {conditions: []}; this.formData = {}.
\* pc is where presignedPostPolicy stands, thrown the error of the last
\* call that threw, calls the number of setter calls.
NewPostPolicy ==
    [conditions |-> <<>>, expiration |-> Undefined,
     formData |-> [f \in FormFields |-> Undefined],
     pc |-> "building", thrown |-> "none", calls |-> 0]

\* No PostPolicy is built (the other specifications).
NoPolicy == policy = NewPostPolicy

\* A setter that pushes its condition and leaves formData alone.
PushOnly(p, op, name, value) ==
    [p EXCEPT !.conditions = Append(@, [op |-> op, name |-> name, value |-> value])]

\* this.policy.conditions.push([op, '$field', value]);
\* this.formData[field] = value
Push(p, op, name, value) ==
    [p EXCEPT !.conditions = Append(@, [op |-> op, name |-> name, value |-> value]),
              !.formData[FieldOf(name)] = value]

\* The policy after a call of a setter that throws error or changes the
\* policy.
Set(throws, error, changed) ==
    [(IF throws THEN [policy EXCEPT !.thrown = error] ELSE changed)
        EXCEPT !.calls = @ + 1]

\* setExpires(nativedate): errrors is not defined, so a null date throws a
\* ReferenceError.
SetExpires(nativedate) ==
    /\ policy.calls < MaxSetterCalls
    /\ policy' = Set(nativedate = "null", "ReferenceError",
                     [policy EXCEPT !.expiration = nativedate])
    /\ UNCHANGED <<regionVars, uploadVars, getVars, made, call, cu, rq>>

SetKey(objectName) ==
    /\ policy.calls < MaxSetterCalls
    /\ policy' = Set(objectName = "", "InvalidObjectNameError",
                     Push(policy, "eq", "$key", objectName))
    /\ UNCHANGED <<regionVars, uploadVars, getVars, made, call, cu, rq>>

SetKeyStartsWith(prefix) ==
    /\ policy.calls < MaxSetterCalls
    /\ policy' = Set(prefix = Undefined, "InvalidPrefixError",
                     Push(policy, "starts-with", "$key", prefix))
    /\ UNCHANGED <<regionVars, uploadVars, getVars, made, call, cu, rq>>

SetBucket(bucketName) ==
    /\ policy.calls < MaxSetterCalls
    /\ policy' = Set(~IsValidBucketName(bucketName), "InvalidBucketNameError",
                     Push(policy, "eq", "$bucket", bucketName))
    /\ UNCHANGED <<regionVars, uploadVars, getVars, made, call, cu, rq>>

SetContentType(type) ==
    /\ policy.calls < MaxSetterCalls
    /\ policy' = Set(type = "", "Error", Push(policy, "eq", "$Content-Type", type))
    /\ UNCHANGED <<regionVars, uploadVars, getVars, made, call, cu, rq>>

SetContentLength(min, max) ==
    /\ policy.calls < MaxSetterCalls
    /\ policy' = Set(min > max \/ min < 0 \/ max < 0, "Error",
                     [policy EXCEPT !.conditions =
                          Append(@, [op |-> "content-length-range",
                                     min |-> min, max |-> max])])
    /\ UNCHANGED <<regionVars, uploadVars, getVars, made, call, cu, rq>>

\* presignedPostPolicy(postPolicy, cb) up to its call of getBucketRegion,
\* which throws for an illegal bucket name.
PresignedPostPolicy ==
    /\ policy.pc = "building"
    /\ policy' = IF client.anonymous
                 THEN [policy EXCEPT !.pc = "thrown", !.thrown = "AnonymousRequestError"]
                 ELSE IF ~IsValidBucketName(policy.formData["bucket"])
                 THEN [policy EXCEPT !.pc = "thrown", !.thrown = "InvalidBucketNameError"]
                 ELSE [policy EXCEPT !.pc = "region"]
    /\ UNCHANGED <<regionVars, uploadVars, getVars, made, call, cu, rq>>

\* The callback of getBucketRegion with an error: cb(e).
PresignedPostPolicyError ==
    /\ policy.pc = "region"
    /\ policy' = [policy EXCEPT !.pc = "failed"]
    /\ UNCHANGED <<regionVars, uploadVars, getVars, made, call, cu, rq>>

\* The callback of getBucketRegion with the region: the three conditions
\* and their fields, the encoded policy, the signature; cb(null, formData).
PresignedPostPolicySigned ==
    /\ policy.pc = "region"
    /\ LET dated == Push(policy, "eq", "$x-amz-date", "dateStr")
           withAlgorithm == Push(dated, "eq", "$x-amz-algorithm", "AWS4-HMAC-SHA256")
           withCredential == Push(withAlgorithm, "eq", "$x-amz-credential", "scope")
       IN policy' = [withCredential EXCEPT !.formData["policy"] = "policyBase64",
                                           !.formData["x-amz-signature"] = "signature",
                                           !.pc = "signed"]
    /\ UNCHANGED <<regionVars, uploadVars, getVars, made, call, cu, rq>>

NextPolicy ==
    \/ \E nativedate \in {"date", "null"} : SetExpires(nativedate)
    \/ \E objectName \in {"o", ""} : SetKey(objectName)
    \/ \E prefix \in {"p", Undefined} : SetKeyStartsWith(prefix)
    \/ \E bucketName \in {B, ""} : SetBucket(bucketName)
    \/ \E type \in {"text/plain", ""} : SetContentType(type)
    \/ \E min \in -1..1, max \in 0..1 : SetContentLength(min, max)
    \/ PresignedPostPolicy
    \/ PresignedPostPolicyError
    \/ PresignedPostPolicySigned

\* ------------------------------------------------------------------------
\* chunkUploader as a stream of its own: chunks of any length written to it
\* ------------------------------------------------------------------------

\* The most chunks written to one chunkUploader.
MaxChunks == 4

\* The lengths of the chunks written, and the multipartSize arguments.
ChunkLengths == 1..(minimumPartSize + 1)

MultipartSizes == 1..(maximumPartSize + 1)

\* No chunkUploader yet. partsDone holds the lengths of the parts (the
\* part numbers are its indices); history: puts, the lengths of the bodies
\* of the PUTs sent, and written, the lengths of the chunks written.
NoChunkUploader ==
    [pc |-> "none", multipartSize |-> 0, aggregatedSize |-> 0, partNumber |-> 1,
     partsDone |-> <<>>, emitted |-> FALSE, puts |-> <<>>, written |-> <<>>]

NoChunks == cu = NoChunkUploader

\* if (chunk.length > this.minimumPartSize) return cb(new Error(...))
ChunkTooLongNever(length) == FALSE

ChunkTooLong(length) == length > minimumPartSize

\* chunkUploader(bucketName, objectName, contentType, uploadId, partsArray,
\* multipartSize): throws when multipartSize > this.maximumPartSize, else
\* returns the stream.
ChunkUploader(multipartSize) ==
    /\ cu.pc = "none"
    /\ cu' = IF multipartSize > maximumPartSize
             THEN [cu EXCEPT !.pc = "thrown", !.multipartSize = multipartSize]
             ELSE [cu EXCEPT !.pc = "open", !.multipartSize = multipartSize]
    /\ UNCHANGED <<regionVars, uploadVars, getVars, made, call, policy, rq>>

\* The transform function for a chunk of length bytes; stored is whether
\* parts[partNumber] exists with the digest of the aggregated bytes. An
\* error passed to cb makes the stream emit 'error': pipesetup hands it on
\* and the source is unpiped, no chunk follows.
Transform(length, stored) ==
    /\ cu.pc = "open"
    /\ Len(cu.written) < MaxChunks
    /\ LET aggregatedSize == cu.aggregatedSize + length
           done == \/ aggregatedSize = cu.multipartSize
                   \/ aggregatedSize < cu.multipartSize /\ length < minimumPartSize
           chunk == [cu EXCEPT !.written = Append(@, length)]
       IN cu' = IF ChunkTooLong(length)
                THEN [chunk EXCEPT !.pc = "error"]
                ELSE IF aggregatedSize > cu.multipartSize
                THEN [chunk EXCEPT !.pc = "error", !.aggregatedSize = aggregatedSize]
                ELSE IF ~done
                THEN [chunk EXCEPT !.aggregatedSize = aggregatedSize]
                ELSE IF stored
                THEN [chunk EXCEPT !.aggregatedSize = 0,
                                   !.partsDone = Append(@, aggregatedSize),
                                   !.partNumber = NextPartNumber(@)]
                ELSE [chunk EXCEPT !.pc = "uploading",
                                   !.aggregatedSize = aggregatedSize,
                                   !.puts = Append(@, aggregatedSize)]
    /\ UNCHANGED <<regionVars, uploadVars, getVars, made, call, policy, rq>>

\* The uploader's callback of the part PUT: with an error, cb(e); else the
\* part is pushed to partsDone and the next chunk is let in.
UploaderCallback(e) ==
    /\ cu.pc = "uploading"
    /\ cu' = IF e THEN [cu EXCEPT !.pc = "error"]
             ELSE [cu EXCEPT !.pc = "open",
                             !.partsDone = Append(@, cu.aggregatedSize),
                             !.aggregatedSize = 0,
                             !.partNumber = NextPartNumber(@)]
    /\ UNCHANGED <<regionVars, uploadVars, getVars, made, call, policy, rq>>

\* The flush function, when the source has ended: this.push(partsDone);
\* this.push(null).
Flush ==
    /\ cu.pc = "open"
    /\ cu' = [cu EXCEPT !.pc = "ended", !.emitted = TRUE]
    /\ UNCHANGED <<regionVars, uploadVars, getVars, made, call, policy, rq>>

NextChunks ==
    \/ \E multipartSize \in MultipartSizes : ChunkUploader(multipartSize)
    \/ \E length \in ChunkLengths, stored \in BOOLEAN : Transform(length, stored)
    \/ \E e \in BOOLEAN : UploaderCallback(e)
    \/ Flush

\* ------------------------------------------------------------------------
\* One makeRequestStream call after the other, with every listener of the
\* call as an action
\* ------------------------------------------------------------------------

\* The most makeRequestStream calls on the client.
MaxRequests == 3

\* No call yet. pc is where the call last started stands: "sending" (the
\* request is open, no response yet), "receiving" (the expected status has
\* come, the caller reads the body of the response), "errBody" (another
\* status has come, the body goes through the error transformer), "closed".
\* bodySent: the source stream has ended and the request with it;
\* streamError: the source stream has emitted 'error'. log is history: for
\* every call, what its callback was called with, in order.
NoStream ==
    [pc |-> "none", bodySent |-> FALSE, streamError |-> FALSE, log |-> <<>>]

NoStreams == rq = NoStream

\* cb(...) of the call in progress is called with result.
Cb(result) == [rq.log EXCEPT ![Len(rq.log)] = Append(@, result)]

\* The request is open: its socket is in use, its listeners are attached.
Open == rq.pc \in {"sending", "receiving", "errBody"}

\* _makeRequest(e, region), called by getBucketRegion or at once: with an
\* error of the region lookup cb(e); else the request is signed, opened,
\* and the stream is piped into it.
StreamRequest(e) ==
    /\ ~Open
    /\ Len(rq.log) < MaxRequests
    /\ rq' = IF e THEN [NoStream EXCEPT !.pc = "closed",
                                        !.log = Append(rq.log, <<"error">>)]
             ELSE [NoStream EXCEPT !.pc = "sending", !.log = Append(rq.log, <<>>)]
    /\ UNCHANGED <<regionVars, uploadVars, getVars, made, call, policy, cu>>

\* The source stream has ended: the body of the request is sent.
StreamEnd ==
    /\ Open
    /\ ~rq.bodySent /\ ~rq.streamError
    /\ rq' = [rq EXCEPT !.bodySent = TRUE]
    /\ UNCHANGED <<regionVars, uploadVars, getVars, made, call, policy, cu>>

\* The response callback of this.transport.request. The expected status,
\* which the server gives to a request it has read to its end: cb(null,
\* response). Another status, which may come before that: the body is piped
\* through the error transformer.
OnResponse(expected) ==
    /\ rq.pc = "sending"
    /\ expected => rq.bodySent
    /\ rq' = IF expected THEN [rq EXCEPT !.pc = "receiving", !.log = Cb("response")]
             ELSE [rq EXCEPT !.pc = "errBody"]
    /\ UNCHANGED <<regionVars, uploadVars, getVars, made, call, policy, cu>>

\* The caller has read the body of the response to its end.
OnResponseEnd ==
    /\ rq.pc = "receiving"
    /\ rq' = [rq EXCEPT !.pc = "closed"]
    /\ UNCHANGED <<regionVars, uploadVars, getVars, made, call, policy, cu>>

\* .on('error', e => { this.logHTTP(reqOptions, response, e); cb(e) }) of
\* the error transformer, which emits the decoded error when the body of
\* the response has ended.
OnErrorBody ==
    /\ rq.pc = "errBody"
    /\ rq' = [rq EXCEPT !.pc = "closed", !.log = Cb("error")]
    /\ UNCHANGED <<regionVars, uploadVars, getVars, made, call, policy, cu>>

\* pipesetup(stream, req).on('error', e => { ...; cb(e) }) for an error of
\* the socket, which the request emits while it is open, before and after
\* the response has come: the socket is destroyed, a response in transit
\* does not end.
OnSocketError ==
    /\ Open
    /\ rq' = [rq EXCEPT !.pc = "closed", !.log = Cb("error")]
    /\ UNCHANGED <<regionVars, uploadVars, getVars, made, call, policy, cu>>

\* The same listener for an 'error' of the source stream, which pipesetup
\* emits again on the request: the request stays open.
OnStreamError ==
    /\ Open
    /\ ~rq.bodySent /\ ~rq.streamError
    /\ rq' = [rq EXCEPT !.streamError = TRUE, !.log = Cb("error")]
    /\ UNCHANGED <<regionVars, uploadVars, getVars, made, call, policy, cu>>

NextStream ==
    \/ \E e \in BOOLEAN : StreamRequest(e)
    \/ StreamEnd
    \/ \E expected \in BOOLEAN : OnResponse(expected)
    \/ OnResponseEnd
    \/ OnErrorBody
    \/ OnSocketError
    \/ OnStreamError

\* ------------------------------------------------------------------------
\* Specifications
\* ------------------------------------------------------------------------

\* The client has an access key and a secret key.
Authenticated == client = NewClient(FALSE)

\* The calls that are not running.
Quiet(running) ==
    /\ "upload" \in running \/ NoUploads
    /\ "get" \in running \/ NoDownload
    /\ "makeBucket" \in running \/ NoMakeBucket
    /\ "call" \in running \/ NoCall
    /\ "policy" \in running \/ NoPolicy
    /\ "chunks" \in running \/ NoChunks
    /\ "streams" \in running \/ NoStreams

Init == InitRegion /\ Authenticated /\ Quiet({})

Next == NextRegion

Spec == Init /\ [][Next]_vars

InitUploads == InitRegion /\ Authenticated /\ InitUpload /\ Quiet({"upload"})

SpecUpload == InitUploads /\ [][NextUpload]_vars

\* fPutObject when no request fails and no read of the file fails: every
\* request is answered with the expected status, and the event loop runs
\* every callback that is due.
NextLoop ==
    \/ \E statOk \in BOOLEAN : FPutObject(statOk)
    \/ HashSummerData
    \/ SimplePutResponse
    \/ \E k \in 0..Len(srvUploads) : FindUploadIdPage(k)
    \/ \E i \in 1..Len(puts) : PutPartResponse(i)
    \/ \E p \in Pipes :
          \/ \E k \in 0..maxPartsCount, at \in Attachments : ListPartsPage(p, k, at)
          \/ \E at \in Attachments : InitiateResponse(p, at)
          \/ FPutPart(p)
          \/ CompleteResponse(p)

InitLoop == InitUploads /\ inv.api = "fput"

SpecLoop == InitLoop /\ [][NextLoop]_vars /\ WF_vars(NextLoop)

\* Uploads and removeIncompleteUpload calls for the same object.
NextRemove ==
    \/ NextUpload
    \/ RemoveIncompleteUpload
    \/ \E p \in Pipes : DeleteResponse(p) \/ DeleteError(p)

SpecRemove == InitUploads /\ [][NextRemove]_vars

InitGets == InitRegion /\ Authenticated /\ InitGet /\ Quiet({"get"})

SpecGet == InitGets /\ [][NextGet]_vars

InitMakeBucket == InitRegion /\ Authenticated /\ InitMade /\ Quiet({"makeBucket"})

SpecMakeBucket == InitMakeBucket /\ [][NextMakeBucket]_vars

\* A client with or without keys: the presigned calls next to requests
\* that name a bucket, which fill and clear the region cache.
InitPresign ==
    /\ InitRegion
    /\ \E anonymous \in BOOLEAN : client = NewClient(anonymous)
    /\ Quiet({})

NextPresign ==
    \E o \in Ops :
        \/ \E b \in Buckets, api \in PresignApis : Presign(o, api, b)
        \/ \E b \in Buckets : MakeRequestStream(o, "bucketReq", b)
        \/ LocationStatusError(o)
        \/ LocationResponse(o)
        \/ LocationEnd(o)
        \/ LocationFail(o)
        \/ ResponseOk(o)
        \/ ResponseStatusError(o)
        \/ ErrorBody(o)
        \/ SocketError(o)

SpecPresign == InitPresign /\ [][NextPresign]_vars

\* Calls with legal and with illegal bucket names on a client with or
\* without keys.
NextNames ==
    \/ \E api \in BucketApis, bucketName \in IllegalNames :
           IllegalBucketName(api, bucketName)
    \/ \E o \in Ops :
           \/ \E b \in Buckets : MakeRequestStream(o, "bucketReq", b)
           \/ LocationStatusError(o)
           \/ LocationResponse(o)
           \/ LocationEnd(o)
           \/ LocationFail(o)
           \/ ResponseOk(o)
           \/ ResponseStatusError(o)
           \/ ErrorBody(o)
           \/ SocketError(o)

SpecNames == InitPresign /\ [][NextNames]_vars

\* Requests to buckets that move to another region, from callers that try
\* again.
NextRetry ==
    \/ \E b \in Buckets : Relocate(b)
    \/ \E o \in Ops :
           \/ \E b \in Buckets : MakeRequestStream(o, "bucketReq", b)
           \/ LocationStatusError(o)
           \/ LocationResponse(o)
           \/ LocationEnd(o)
           \/ LocationFail(o)
           \/ ResponseOk(o)
           \/ ResponseStatusError(o)
           \/ ErrorBody(o)
           \/ SocketError(o)

\* A handler of the call in slot o runs.
Advance(o) ==
    \/ LocationStatusError(o)
    \/ LocationResponse(o)
    \/ LocationEnd(o)
    \/ LocationFail(o)
    \/ ResponseOk(o)
    \/ ResponseStatusError(o)
    \/ ErrorBody(o)
    \/ SocketError(o)

\* Every call in flight goes on: its request is answered or fails, and the
\* event loop runs its handlers. The caller of requests to B tries again
\* and again; the server answers requests to B and lookups of B's region
\* time and again, the requests with a status (not only with socket
\* errors) and the lookups with 200 and a body that decodes.
FairRetry ==
    /\ \A o \in Ops : WF_vars(Advance(o))
    /\ SF_vars(\E o \in Ops : MakeRequestStream(o, "bucketReq", B))
    /\ SF_vars(\E o \in Ops : ops[o].bucket = B /\ LocationResponse(o))
    /\ SF_vars(\E o \in Ops : ops[o].bucket = B /\ LocationEnd(o))
    /\ SF_vars(\E o \in Ops : /\ ops[o].bucket = B
                               /\ (ResponseOk(o) \/ ResponseStatusError(o)))

SpecRetry == Init /\ [][NextRetry]_vars /\ FairRetry

\* A client with or without keys and every call of the request pipeline.
SpecClient == InitPresign /\ [][Next]_vars

\* The calls of setAppInfo on a client.
NextAppInfo ==
    \E appName \in AppArgs, appVersion \in AppArgs : SetAppInfo(appName, appVersion)

SpecAppInfo == InitPresign /\ [][NextAppInfo]_vars

InitCalls == InitRegion /\ Authenticated /\ InitCall /\ Quiet({"call"})

SpecCall == InitCalls /\ [][NextCall]_vars

InitPolicies ==
    /\ InitRegion
    /\ \E anonymous \in BOOLEAN : client = NewClient(anonymous)
    /\ policy = NewPostPolicy
    /\ Quiet({"policy"})

SpecPolicy == InitPolicies /\ [][NextPolicy]_vars

InitChunks == InitRegion /\ Authenticated /\ Quiet({})

SpecChunks == InitChunks /\ [][NextChunks]_vars

InitStreams == InitRegion /\ Authenticated /\ Quiet({})

SpecStream == InitStreams /\ [][NextStream]_vars

\* ------------------------------------------------------------------------
\* Claims about the region cache (checked under Spec)
\* ------------------------------------------------------------------------

\* The call in slot o starts a request to B through makeRequestStream in
\* this step.
StartsRequest(o) ==
    /\ ops[o].pc = "idle"
    /\ ops'[o].kind \in StreamKinds
    /\ ops'[o].bucket = B

\* This step is an unexpected-status response to a request addressed to B:
\* the request of a call, makeBucket's PUT, or a GET ?location lookup.
UnexpectedStatus(o) ==
    /\ ops[o].bucket = B
    /\ \/ ops[o].pc = "sending" /\ ops'[o].pc = "errBody"
       \/ ops[o].pc = "locating" /\ ops'[o].pc = "locErrBody"

\* C2, as stated: once a request to B has succeeded, and as long as no
\* unexpected status for B and no successful removeBucket(B) came after
\* that success, a request to B that starts sends no GET ?location.
C2_NoLookupAfterSuccess ==
    [][\A o \in Ops : (StartsRequest(o) /\ okSince) => ops'[o].pc # "locating"]_vars

\* C2, amended: once a request to B has succeeded at a moment when B's
\* region was in the cache, and as long as no unexpected status for B and no
\* successful removeBucket(B) came after that success, a request to B that
\* starts sends no GET ?location.
C2_NoLookupAfterCachedSuccess ==
    [][\A o \in Ops : (StartsRequest(o) /\ okCached) => ops'[o].pc # "locating"]_vars

\* C2, witness: after such a success a request to B is in flight that was
\* sent without a lookup.
C2_Witness ==
    /\ okCached
    /\ \E o \in Ops : /\ ops[o].pc = "sending"
                       /\ ops[o].kind = "bucketReq"
                       /\ ops[o].bucket = B
                       /\ ~ops[o].looked

\* C3, as stated: after a response with an unexpected status to a request
\* for B, the next request to B sends GET ?location before it is sent
\* itself.
C3_LookupAfterUnexpectedStatus ==
    [][\A o \in Ops : (StartsRequest(o) /\ failedLast) => ops'[o].pc = "locating"]_vars

\* C4, as stated: when the error of an unexpected status of a request to B
\* reaches the caller's callback, the cache holds no entry for B.
C4_NoEntryWhenErrorDelivered ==
    [][\A o \in Ops : (ops[o].pc = "errBody" /\ ops[o].bucket = B /\ ops'[o].pc = "idle")
                        => regionMap'[B] = NoRegion]_vars

\* C5, as stated: every unexpected-status response to a request addressed
\* to B (makeBucket's PUT and the ?location lookup included) leaves the
\* cache without an entry for B.
C5_EvictedOnAnyUnexpectedStatus ==
    [][\A o \in Ops : UnexpectedStatus(o) => regionMap'[B] = NoRegion]_vars

\* ------------------------------------------------------------------------
\* Claims about the multipart upload (checked under SpecUpload)
\* ------------------------------------------------------------------------

\* The runs whose third step is under way or has led to
\* completeMultipartUpload.
Uploading == {p \in Pipes : pipes[p].pc \in {"parts", "completing", "done"}}

\* The part PUTs of run p that are in flight.
InFlight(p) == SelectSeq(puts, LAMBDA r : r.pipe = p)

\* The bytes of the i-th entry of run p's partsDone.
DoneChunk(p, i) ==
    Chunk("F", pipes[p].attachPos + SumLen(SubSeq(pipes[p].partsDone, 1, i - 1)),
          pipes[p].partsDone[i].len)

\* The parts list of completeMultipartUpload as run p sends it.
Manifest(p) ==
    [i \in 1..Len(pipes[p].partsDone) |->
        [part |-> pipes[p].partsDone[i].part, etag |-> pipes[p].partsDone[i].etag]]

\* The parts list of an uninterrupted upload of size bytes of F.
ExpectedManifest(size) ==
    [i \in 1..Ceil(size, calculatePartSize(size)) |->
        [part |-> i, etag |-> MD5Hex(PartChunk("F", size, i))]]

\* C1, as stated: the parts list of a multipart upload that has succeeded
\* has ceil(S / P) parts for P = calculatePartSize(S), the last of at most P
\* bytes, and the lengths of the parts add up to S.
C1_PartsCoverTheObject ==
    \A p \in Pipes :
        pipes[p].pc = "done" =>
            LET P == calculatePartSize(inv.size)
                done == pipes[p].partsDone
            IN /\ Len(done) = Ceil(inv.size, P)
               /\ done # <<>> /\ done[Len(done)].len <= P
               /\ SumLen(done) = inv.size

\* C6, as stated: once a step of a multipart upload has failed, the
\* caller's callback has got the error, no completeMultipartUpload of the
\* invocation has been or is sent, and the upload of every run is still
\* pending on the server.
C6_FailureEndsTheUpload ==
    inv.failed =>
        /\ inv.cb = "err"
        /\ \A p \in Pipes :
              /\ pipes[p].pc \notin {"completing", "done"}
              /\ pipes[p].uploadId # NoUpload =>
                    \E i \in 1..Len(srvUploads) : srvUploads[i].id = pipes[p].uploadId

\* C7: in a second or later invocation of fPutObject for the same file,
\* after an invocation that ended with an error, every part PUT carries the
\* Content-MD5 of its body, and the parts list of completeMultipartUpload
\* is the one of an uninterrupted upload of the file and is one the server
\* assembles the object from.
C7_ResumedUploadSameManifest ==
    (inv.api = "fput" /\ inv.n >= 2) =>
        /\ \A i \in 1..Len(puts) : puts[i].md5 = MD5Base64(puts[i].body)
        /\ \A p \in Pipes :
              /\ pipes[p].pc \in {"completing", "done"} =>
                    Manifest(p) = ExpectedManifest(inv.size)
              /\ pipes[p].pc = "completing" =>
                    Assembles(pipes[p].uploadId, pipes[p].partsDone)

\* C7, witness: the second invocation of fPutObject has succeeded with the
\* upload that the first invocation initiated, with a part that the first
\* invocation had uploaded and a part that the second one uploaded.
C7_Witness ==
    /\ inv.api = "fput" /\ inv.n = 2 /\ inv.cb = "ok"
    /\ \E p \in Pipes :
          /\ pipes[p].pc = "done"
          /\ pipes[p].uploadId = 3
          /\ \E i, j \in 1..Len(pipes[p].partsDone) :
                ~pipes[p].partsDone[i].sent /\ pipes[p].partsDone[j].sent

\* C8: for every part a run has recorded, the part was PUT by the run if
\* and only if the parts listing had no record at its number with the hex
\* MD5 of the part's bytes as etag; a part not PUT is recorded with the
\* etag of the listing, a part PUT with the ETag of the server's answer,
\* the hex MD5 of the body; and a PUT in flight is for a part with no such
\* record.
C8_PutIffNoMatchingRecord ==
    \A p \in Uploading :
        /\ \A i \in 1..Len(pipes[p].partsDone) :
              LET e == pipes[p].partsDone[i]
                  listed == PartsOf(pipes[p].etags)[e.part]
                  md5hex == MD5Hex(DoneChunk(p, i))
              IN /\ e.sent <=> ~(listed # NoEtag /\ listed = md5hex)
                 /\ ~e.sent => e.etag = listed
                 /\ e.sent => e.etag = md5hex
        /\ \A i \in 1..Len(InFlight(p)) :
              LET r == InFlight(p)[i]
                  listed == PartsOf(pipes[p].etags)[r.partNumber]
              IN ~(listed # NoEtag /\ listed = MD5Hex(r.body))

\* C8, witness: a run has recorded a part without a PUT, on a matching
\* record, and has PUT a part whose record had another etag.
C8_Witness ==
    \E p \in Uploading :
        \E i, j \in 1..Len(pipes[p].partsDone) :
            /\ ~pipes[p].partsDone[i].sent
            /\ pipes[p].partsDone[j].sent
            /\ PartsOf(pipes[p].etags)[pipes[p].partsDone[j].part] # NoEtag

\* C9: the part numbers of the PUTs a run has sent are strictly ascending,
\* the parts a run has recorded are numbered 1, 2, ... in this order, a PUT
\* in flight is for the number after the last one recorded, and so the
\* parts list of completeMultipartUpload has the numbers 1..n in order.
C9_AscendingPartNumbers ==
    \A p \in Uploading :
        /\ \A i, j \in 1..Len(pipes[p].putLog) :
              i < j => pipes[p].putLog[i] < pipes[p].putLog[j]
        /\ \A i \in 1..Len(pipes[p].partsDone) : pipes[p].partsDone[i].part = i
        /\ \A i \in 1..Len(InFlight(p)) :
              InFlight(p)[i].partNumber = Len(pipes[p].partsDone) + 1

\* C9, witness: completeMultipartUpload is sent with three parts, of which
\* the first was resume-skipped and the others were PUT.
C9_Witness ==
    \E p \in Pipes :
        /\ pipes[p].pc = "completing"
        /\ Len(pipes[p].partsDone) = 3
        /\ ~pipes[p].partsDone[1].sent
        /\ pipes[p].putLog = <<2, 3>>

\* C10: a run has at most one part PUT in flight, and while it is in
\* flight the run is waiting for it: it takes no further chunk, and the
\* part in flight is the one after the parts recorded.
C10_OnePutInFlight ==
    \A p \in Pipes :
        /\ Len(InFlight(p)) <= 1
        /\ (Len(InFlight(p)) = 1 /\ pipes[p].pc # "failed") =>
              /\ pipes[p].pc = "parts"
              /\ pipes[p].busy
              /\ pipes[p].partNumber = InFlight(p)[1].partNumber
              /\ Len(pipes[p].partsDone) = InFlight(p)[1].partNumber - 1

\* C10, witness: the PUT of part 2 is in flight after part 1 was PUT and
\* recorded.
C10_Witness ==
    \E p \in Pipes :
        /\ Len(InFlight(p)) = 1
        /\ InFlight(p)[1].partNumber = 2
        /\ Len(pipes[p].partsDone) = 1
        /\ pipes[p].partsDone[1].sent

\* C11, as stated: an invocation of either entry point takes the simple PUT
\* exactly when the size is at most minimumPartSize, and the multipart
\* path otherwise; on the simple PUT no run of the multipart steps exists
\* and no part PUT is sent.
C11_SingleShotIffAtMostMinimum ==
    inv.path # "none" =>
        /\ inv.path = "single" <=> inv.size <= minimumPartSize
        /\ inv.path = "single" =>
              /\ inv.pc # "finding"
              /\ puts = <<>>
              /\ \A p \in Pipes : pipes[p].pc = "off"

\* C12: an object of minimumPartSize + 1 bytes is uploaded by either entry
\* point on the multipart path, with exactly two parts: part 1 of
\* minimumPartSize bytes and part 2 of 1 byte, in the parts list of
\* completeMultipartUpload; the PUT of the first bytes is part 1 with
\* minimumPartSize bytes, and the only other part number PUT is 2, with 1
\* byte.
C12_TwoPartsJustAboveMinimum ==
    (inv.size = minimumPartSize + 1 /\ inv.actual = inv.size) =>
        /\ inv.path # "single"
        /\ \A i \in 1..Len(puts) :
              /\ puts[i].body.from = 0 =>
                    puts[i].partNumber = 1 /\ puts[i].body.len = minimumPartSize
              /\ puts[i].partNumber # 1 =>
                    puts[i].partNumber = 2 /\ puts[i].body.len = 1
        /\ \A p \in Pipes :
              pipes[p].pc \in {"completing", "done"} =>
                  /\ Len(pipes[p].partsDone) = 2
                  /\ pipes[p].partsDone[1].part = 1
                  /\ pipes[p].partsDone[1].len = minimumPartSize
                  /\ pipes[p].partsDone[2].part = 2
                  /\ pipes[p].partsDone[2].len = 1

\* C12, witness: putObject of a stream of minimumPartSize + 1 bytes has
\* succeeded with both parts PUT by the invocation.
C12_Witness ==
    /\ inv.api = "put" /\ inv.size = minimumPartSize + 1 /\ inv.cb = "ok"
    /\ \E p \in Pipes :
          /\ pipes[p].pc = "done"
          /\ pipes[p].putLog = <<1, 2>>

\* The same for fPutObject of a file of minimumPartSize + 1 bytes.
C12_WitnessFile ==
    /\ inv.api = "fput" /\ inv.size = minimumPartSize + 1 /\ inv.cb = "ok"
    /\ \E p \in Pipes :
          /\ pipes[p].pc = "done"
          /\ pipes[p].putLog = <<1, 2>>

\* C13, as stated: putObject with a stream that delivers a number of bytes
\* other than the declared size never reports success, whatever the
\* declared size, and the server never gets an object from it.
C13_SizeMismatchNeverSucceeds ==
    (inv.api = "put" /\ inv.actual # inv.size) =>
        /\ inv.cb # "ok"
        /\ srvObject = <<>>

\* ------------------------------------------------------------------------
\* Claims on fGetObject (specification SpecGet)
\* ------------------------------------------------------------------------

\* C14, as stated: the part file becomes the file at filePath only when no
\* step has failed and the part file has the object's size; when a step
\* has failed (statObject, mkdirp, the download, fs.stat, the comparison of
\* the sizes) fs.rename is not called, and the call ends with that error
\* given to the callback.
C14_RenameOnlyOnVerifiedSuccess ==
    /\ get.fileSize # NoFile => get.err = "none" /\ get.fileSize = get.size
    /\ get.err # "none" =>
          /\ get.renames = 0
          /\ get.pc = "ended" => get.cb = get.err

\* C15, as stated: once fGetObject has looked at the part file of the
\* object's etag, either the part file has the object's size, no GET is
\* sent and rename is called, or one GET has been sent for the bytes from
\* offset on, where offset is the part file's size (0 when there is none:
\* then the GET has no Range header), and the part file is opened to
\* append (to write when there is none).
C15_ResumeFromPartFileSize ==
    get.pc \notin {"idle", "statObject", "mkdirp", "stat"} /\ get.partFile =>
        IF get.partFile0 # NoFile /\ get.partFile0 = get.size
        THEN get.gets = 0 /\ get.renames = 1 /\ get.err = "none"
        ELSE /\ get.gets = 1
             /\ get.offset = (IF get.partFile0 = NoFile THEN 0 ELSE get.partFile0)
             /\ get.request.range = IF get.offset = 0 THEN NoRange
                                    ELSE [first |-> get.offset, last |-> NoOffset]
             /\ get.flags = IF get.partFile0 = NoFile THEN "w" ELSE "a"

\* ------------------------------------------------------------------------
\* Further claims on the region cache (specification Spec)
\* ------------------------------------------------------------------------

\* This step is the callback of a removeBucket(B) that has succeeded.
RemoveBucketSucceeds(o) ==
    /\ ops[o].kind = "removeBucket"
    /\ ops[o].bucket = B
    /\ ResponseOk(o)

\* C16, as stated: when removeBucket(B) reports success the cache has no
\* entry for B, and the next request to B that starts after it sends
\* GET ?location.
C16_LookupAfterRemoveBucket ==
    [][\A o \in Ops :
          /\ RemoveBucketSucceeds(o) => regionMap'[B] = NoRegion
          /\ (StartsRequest(o) /\ removedLast) => ops'[o].pc = "locating"]_vars

\* C16, amended: when removeBucket(B) reports success the cache has no
\* entry for B, and the next request to B that starts after it sends
\* GET ?location unless a lookup for B has ended since and has put the
\* entry back.
C16_EvictedWhenRemoveBucketSucceeds ==
    [][\A o \in Ops :
          /\ RemoveBucketSucceeds(o) => regionMap'[B] = NoRegion
          /\ (StartsRequest(o) /\ removedLast /\ regionMap[B] = NoRegion) =>
                ops'[o].pc = "locating"]_vars

\* C16, witness: removeBucket(B) has succeeded, no call is in flight and
\* the cache has no entry for B, while it has one for the other bucket.
C16_Witness ==
    /\ removedLast
    /\ regionMap[B] = NoRegion
    /\ regionMap["b2"] # NoRegion
    /\ \A o \in Ops : ops[o].pc = "idle"

\* C17: a step puts an entry for a bucket into the cache only as the end
\* of the decoding of a 200 answer to a GET ?location for that bucket, and
\* the entry is the region decoded; a call that has sent GET ?location
\* sends its request only in such a step, signed with the entry; a lookup
\* that has got another status ends with the call and nothing else, and no
\* step of a lookup that does not end the decoding changes the cache.
C17_NoEntryNoRequestOnFailedLookup ==
    [][/\ \A b \in Buckets :
            (regionMap'[b] # regionMap[b] /\ regionMap'[b] # NoRegion) =>
                /\ regionMap'[b] = DecodeRegion(LocationBody(b))
                /\ \E o \in Ops : /\ ops[o].bucket = b
                                  /\ ops[o].pc = "locDecoding"
                                  /\ ops'[o].pc \in {"sending", "idle"}
       /\ \A o \in Ops :
            /\ (ops[o].pc \in {"locating", "locErrBody", "locDecoding"}
                    /\ ops'[o].pc = "sending") =>
                  /\ ops[o].pc = "locDecoding"
                  /\ regionMap'[ops[o].bucket] # NoRegion
                  /\ ops'[o].sig = regionMap'[ops[o].bucket]
            /\ ops[o].pc = "locErrBody" => ops'[o] \in {ops[o], IdleOp}
            /\ (ops[o].pc \in {"locating", "locErrBody"} /\ ops'[o] # ops[o]) =>
                  regionMap' = regionMap]_vars

\* C17, witness: the lookup for B was answered with a status other than
\* 200, its call has not sent its request, and the cache has no entry for B.
C17_Witness ==
    \E o \in Ops :
        /\ ops[o].pc = "locErrBody"
        /\ ops[o].bucket = B
        /\ ops[o].kind = "bucketReq"
        /\ regionMap[B] = NoRegion

\* ------------------------------------------------------------------------
\* Further claims on the uploads (specification SpecUpload)
\* ------------------------------------------------------------------------

\* This step sends an HTTP request of the invocation: a query of
\* findUploadId or of listParts, initiateNewMultipartUpload, a PUT of a
\* part or of the object, completeMultipartUpload.
SendsRequest ==
    \/ inv'.pc = "finding" /\ (inv.pc # "finding" \/ inv'.marker # inv.marker)
    \/ inv'.pc = "putting" /\ inv.pc # "putting"
    \/ Len(puts') > Len(puts)
    \/ \E p \in Pipes :
          /\ pipes'[p].pc \in {"listParts", "initiating", "completing"}
          /\ \/ pipes'[p].pc # pipes[p].pc
             \/ pipes'[p].marker # pipes[p].marker

\* C18, as stated: once an HTTP request of an upload has ended with an
\* error of the transport or an unexpected status, the caller's callback
\* has got the error and the invocation sends no further HTTP request.
C18_NoRequestAfterFailedRequest ==
    [][(inv.httpFailed /\ inv'.n = inv.n) =>
          /\ inv.cb = "err"
          /\ ~SendsRequest]_vars

\* ------------------------------------------------------------------------
\* Claims on makeBucket (SpecMakeBucket) and on the presigned calls
\* (SpecPresign)
\* ------------------------------------------------------------------------

\* C19, as stated: the request of makeBucket(b, acl, 'us-east-1') has an
\* empty body, and a request of makeBucket has a CreateBucketConfiguration
\* with a LocationConstraint only for a region other than us-east-1; the
\* constraint is the region.
C19_NoLocationConstraintForDefaultRegion ==
    made.pc \in {"sending", "errBody", "ended"} =>
        /\ made.region = "us-east-1" => made.payload = EmptyPayload
        /\ made.payload # EmptyPayload =>
              /\ made.region # "us-east-1"
              /\ made.payload = <<"CreateBucketConfiguration", "LocationConstraint",
                                  made.region>>

\* C20: on an anonymous client a presigned call throws
\* AnonymousRequestError and changes neither the region cache nor the calls
\* in flight: it sends no GET ?location, and no presigned call is ever in
\* flight with a lookup.
C20_AnonymousPresignThrowsFirst ==
    [][client.anonymous =>
          /\ \A o \in Ops : ops'[o].kind # "presign"
          /\ \A o \in Ops, api \in PresignApis, b \in Buckets :
                Presign(o, api, b) =>
                    /\ client'.thrown = [api |-> api, error |-> "AnonymousRequestError"]
                    /\ regionMap' = regionMap
                    /\ ops' = ops]_vars

\* C20, witness: a presigned call has thrown on an anonymous client whose
\* region cache has an entry for B and none for the other bucket.
C20_Witness ==
    /\ client.anonymous
    /\ client.thrown = [api |-> "presignedPostPolicy", error |-> "AnonymousRequestError"]
    /\ regionMap[B] # NoRegion
    /\ regionMap["b2"] = NoRegion

\* ------------------------------------------------------------------------
\* Claims about signing (checked under SpecClient)
\* ------------------------------------------------------------------------

\* The call in slot o has a request on the wire: GET ?location of
\* getBucketRegion, or the request of makeRequestStream or makeBucket.
OnTheWire(o) == ops[o].pc \in {"locating", "sending"}

\* C21: every request the client sends, through makeRequestStream,
\* getBucketRegion or makeBucket, carries all of authorization, x-amz-date
\* and x-amz-content-sha256 when the client is not anonymous and none of
\* them when it is anonymous.
C21_SigningHeadersIffNotAnonymous ==
    \A o \in Ops :
        OnTheWire(o) =>
            /\ ~client.anonymous => AuthHeaders \subseteq ops[o].headers
            /\ client.anonymous => ops[o].headers \cap AuthHeaders = {}

\* An anonymous client with makeBucket's PUT and a request sent after a
\* region lookup on the wire.
C21_Witness ==
    /\ client.anonymous
    /\ \E o \in Ops : ops[o].kind = "makeBucket" /\ ops[o].pc = "sending"
    /\ \E o \in Ops : /\ ops[o].kind \in StreamKinds /\ ops[o].pc = "sending"
                      /\ ops[o].looked

\* ------------------------------------------------------------------------
\* Claims about calls that depend on their arguments only (checked under
\* SpecCall)
\* ------------------------------------------------------------------------

\* The canned ACL of the reduction table for the flags publicRead,
\* publicWrite, authRead, authWrite.
ReductionTable(flags) ==
    CASE flags = <<TRUE, TRUE, FALSE, FALSE>> -> "public-read-write"
      [] flags = <<TRUE, FALSE, FALSE, FALSE>> -> "public-read"
      [] flags = <<FALSE, FALSE, TRUE, FALSE>> -> "authenticated-read"
      [] flags = <<FALSE, FALSE, FALSE, FALSE>> -> "private"
      [] OTHER -> "unsupported-acl"

Flags(acl) ==
    <<Perm(acl).publicRead, Perm(acl).publicWrite,
      Perm(acl).authenticatedRead, Perm(acl).authenticatedWrite>>

\* C22: for every combination of the four grant flags derived from the
\* server's grants, getBucketACL returns public-read-write for (T,T,F,F),
\* public-read for (T,F,F,F), authenticated-read for (F,F,T,F), private for
\* (F,F,F,F) and unsupported-acl for each of the other twelve.
C22_CannedACLOfTheReductionTable ==
    call.api = "getBucketACL" /\ call.pc = "done" =>
        call.result = ReductionTable(Flags(call.arg.acl))

\* getBucketACL has answered for grants that give AllUsers and
\* AuthenticatedUsers READ and nothing else: one of the twelve.
C22_Witness ==
    /\ call.api = "getBucketACL" /\ call.pc = "done"
    /\ Flags(call.arg.acl) = <<TRUE, FALSE, TRUE, FALSE>>
    /\ call.result = "unsupported-acl"

\* C23: for all non-negative offset and length getPartialObject sends
\* Range: bytes={offset}-{offset+length-1} when length > 0, the open-ended
\* bytes={offset}- when length = 0 and offset > 0, and no Range header when
\* both are 0; it expects 206 exactly when it sends a Range header and 200
\* otherwise.
C23_RangeAndExpectedStatus ==
    call.api = "getPartialObject" /\ call.pc = "done" =>
        LET offset == call.arg.offset
            length == call.arg.length
            request == call.result
        IN /\ length > 0 =>
                  request.range = [first |-> offset, last |-> offset + length - 1]
           /\ length = 0 /\ offset > 0 =>
                  request.range = [first |-> offset, last |-> NoOffset]
           /\ length = 0 /\ offset = 0 => request.range = NoRange
           /\ request.expectedStatus = IF request.range # NoRange THEN 206 ELSE 200

\* getPartialObject has built the request for offset 1 and length 2:
\* bytes=1-2, expecting 206.
C23_Witness ==
    /\ call.api = "getPartialObject" /\ call.pc = "done"
    /\ call.arg = [offset |-> 1, length |-> 2]
    /\ call.result = [range |-> [first |-> 1, last |-> 2], expectedStatus |-> 206]

\* The least n with n * d >= a.
LeastQuotient(a, d) == CHOOSE n \in 0..a : n * d >= a /\ \A k \in 0..(n - 1) : k * d < a

C25_SignedOnlyWithExpirationAndBucket ==
    policy.formData["x-amz-signature"] # Undefined =>
        /\ policy.expiration # Undefined
        /\ policy.formData["bucket"] # Undefined

\* C26: after any sequence of calls of the setters of a PostPolicy,
\* followed or not by presignedPostPolicy, every condition of
\* policy.conditions other than content-length-range names a field that
\* has an entry in formData.
C26_ConditionsHaveFormData ==
    \A i \in 1..Len(policy.conditions) :
        LET condition == policy.conditions[i]
        IN condition.op # "content-length-range" =>
               policy.formData[FieldOf(condition.name)] # Undefined

\* A signed policy with conditions on the key, the bucket and the content
\* length.
C26_Witness ==
    /\ policy.pc = "signed"
    /\ \E i \in 1..Len(policy.conditions) : policy.conditions[i].op = "content-length-range"
    /\ \E i \in 1..Len(policy.conditions) :
           /\ policy.conditions[i].op = "starts-with"
           /\ policy.conditions[i].name = "$key"
    /\ Len(policy.conditions) = 6

\* ------------------------------------------------------------------------
\* Claims about input validation (checked under SpecNames)
\* ------------------------------------------------------------------------

\* C27: for every public call that takes a bucket name, an illegal bucket
\* name makes the call raise InvalidBucketNameError synchronously, before
\* any request or region lookup is issued and without a change of the
\* region cache. A call throws in the steps that change client.thrown.
C27_IllegalBucketNameThrowsInvalidBucketName ==
    [][client'.thrown # client.thrown =>
           /\ client'.thrown.api \in BucketApis
           /\ client'.thrown.error = "InvalidBucketNameError"
           /\ UNCHANGED <<regionMap, ops>>]_vars

\* ------------------------------------------------------------------------
\* Claims about convergence of the region cache (checked under SpecRetry)
\* ------------------------------------------------------------------------

\* B's region on the server does not change any more and the cache holds
\* another region for B.
StaleEntry ==
    /\ srvRegion.moves = MaxMoves
    /\ regionMap[B] \notin {NoRegion, Location(B)}

\* A lookup has put B's region into the cache again and a request to B is
\* on the wire, signed with that region.
Converged ==
    /\ regionMap[B] = Location(B)
    /\ \E o \in Ops : /\ ops[o].kind \in StreamKinds /\ ops[o].bucket = B
                      /\ ops[o].pc = "sending"
                      /\ ops[o].sig = Location(B)

C29_UserAgentHasAtMostOneApp ==
    /\ SubSeq(client.userAgent, 1, Len(LibraryAgent)) = LibraryAgent
    /\ Len(client.userAgent) <= Len(LibraryAgent) + 1

\* ------------------------------------------------------------------------
\* Claims about requests that name no bucket (checked under Spec)
\* ------------------------------------------------------------------------

\* C30: a request that names no bucket (listBuckets) is signed with
\* us-east-1, sends no GET ?location, and neither adds nor removes an entry
\* of the region cache, whether it succeeds or fails: every step of a
\* listBuckets call leaves regionMap alone, and the call is never looking a
\* region up.
C30_ListBucketsLeavesTheCacheAlone ==
    [][\A o \in Ops :
           /\ ops'[o].kind = "listBuckets" =>
                  /\ ops'[o].sig = DefaultRegion
                  /\ ~ops'[o].looked
                  /\ ops'[o].pc \in {"sending", "errBody"}
           /\ (ops[o].kind = "listBuckets" \/ ops'[o].kind = "listBuckets")
                  /\ ops'[o] # ops[o] => regionMap' = regionMap]_vars

\* listBuckets has got an unexpected status while the cache holds the
\* regions of both buckets.
C30_Witness ==
    /\ \E o \in Ops : ops[o].kind = "listBuckets" /\ ops[o].pc = "errBody"
    /\ \A b \in Buckets : regionMap[b] # NoRegion
\* ------------------------------------------------------------------------
\* Claims about the discovery of an incomplete upload (checked under
\* SpecUpload)
\* ------------------------------------------------------------------------

\* The uploads of the object that the server lists.
UploadsOfTheObject == {srvUploads[i].id : i \in {j \in 1..Len(srvUploads) :
                                                    srvUploads[j].key = ObjectName}}

\* The runs whose second step has sent POST ?uploads and waits for the
\* answer, and the runs that fetch the parts of an upload that was found.
Initiating == {p \in Pipes : pipes[p].pc = "initiating"}

Listing == {p \in Pipes : pipes[p].pc = "listParts"}

\* C31: at the start of the multipart path, when findUploadId gives an
\* uploadId the run keeps it, fetches its parts with listParts and sends no
\* initiate request; when it gives undefined exactly one initiate request is
\* sent, and the parts the upload starts with are none. Step by step: an
\* initiate request is sent only by the step that ends findUploadId, and
\* only when no run lists parts; that step starts runs that list the parts
\* of uploads of the object, or one run that initiates; a run that listed
\* parts enters the part loop with the uploadId it was given and all parts
\* the server holds for it, a run that initiated enters it with the new
\* upload and no parts.
C31_ReuseFoundUploadElseInitiateOnce ==
    [][/\ Initiating' # Initiating =>
              \/ Initiating' = {}
              \/ Initiating = {} /\ inv.pc = "finding"
       /\ inv.pc = "finding" /\ inv'.pc = "started" /\ inv'.cb = "none" =>
              \/ /\ Listing' # {}
                 /\ Initiating' = {}
                 /\ \A p \in Listing' : pipes'[p].uploadId \in UploadsOfTheObject
              \/ /\ Listing' = {}
                 /\ Cardinality(Initiating') = 1
       /\ \A p \in Pipes :
              /\ inv.pc # "finding" /\ p \in Listing' => p \in Listing
              /\ p \in Listing /\ pipes'[p].pc \in {"parts", "stalled"} =>
                     /\ pipes'[p].uploadId = pipes[p].uploadId
                     /\ pipes'[p].etags = ListedParts(pipes[p].uploadId, 0)
                     /\ srvUploads' = srvUploads
              /\ p \in Initiating /\ pipes'[p].pc \in {"parts", "stalled"} =>
                     /\ pipes'[p].etags = <<>>
                     /\ pipes'[p].uploadId \notin UploadsOfTheObject
                     /\ pipes'[p].uploadId \in UploadsOfTheObject']_vars

\* A run uploads parts into the upload it found, with the part the server
\* listed for it, while no initiate request was sent; in a second
\* invocation for the same file.
C31_Witness ==
    /\ inv.n = 2
    /\ \E p \in Pipes : /\ pipes[p].pc = "parts"
                        /\ pipes[p].uploadId \in UploadsOfTheObject
                        /\ pipes[p].etags # <<>>
                        /\ pipes[p].putLog # <<>>

\* A run uploads parts into the upload that its one initiate request has
\* created: it started with no parts.
C31_WitnessInitiated ==
    \E p \in Pipes : /\ pipes[p].pc = "parts"
                     /\ pipes[p].uploadId = 2 + inv.n
                     /\ pipes[p].etags = <<>>
                     /\ pipes[p].putLog # <<>>
\* ------------------------------------------------------------------------
\* Claims about chunkUploader as a stream (checked under SpecChunks)
\* ------------------------------------------------------------------------

\* A chunk is written to the chunkUploader in this step.
WritesChunk == Len(cu'.written) = Len(cu.written) + 1

\* C32: in chunkUploader a chunk longer than minimumPartSize, or a chunk
\* with which the aggregated size of the part under construction exceeds
\* multipartSize, ends in an error and no PUT is sent for that part (nor is
\* the part recorded); so in every state without an error the aggregated
\* size is at most multipartSize, and every part sent or recorded is at
\* most multipartSize, which is at most maximumPartSize.
C32_OversizedChunkFailsAndPartsAreBounded ==
    [][/\ WritesChunk =>
              LET length == cu'.written[Len(cu'.written)]
              IN \/ length > minimumPartSize
                 \/ cu.aggregatedSize + length > cu.multipartSize
                 => /\ cu'.pc = "error"
                    /\ cu'.puts = cu.puts
                    /\ cu'.partsDone = cu.partsDone
       /\ cu.pc = "error" => cu' = cu
       /\ cu'.pc \in {"open", "uploading", "ended"} =>
              /\ cu'.multipartSize <= maximumPartSize
              /\ cu'.aggregatedSize <= cu'.multipartSize
              /\ \A i \in 1..Len(cu'.partsDone) :
                     cu'.partsDone[i] <= cu'.multipartSize
              /\ \A i \in 1..Len(cu'.puts) : cu'.puts[i] <= cu'.multipartSize]_vars

\* After a part was uploaded, a chunk of full length has taken the
\* aggregated size beyond multipartSize: the stream has failed with one PUT
\* sent, that of the part uploaded before.
C32_Witness ==
    /\ cu.pc = "error"
    /\ cu.aggregatedSize > cu.multipartSize
    /\ Len(cu.partsDone) = 1
    /\ Len(cu.puts) = 1

\* A chunk longer than minimumPartSize has failed the stream.
C32_WitnessTooLong ==
    /\ cu.pc = "error"
    /\ cu.written # <<>>
    /\ cu.written[Len(cu.written)] > minimumPartSize
    /\ cu.aggregatedSize > 0
\* The uploads that a listing after marker goes through before it comes to
\* upload u.
Between(marker, u) ==
    {srvUploads[i].id : i \in {j \in 1..Len(srvUploads) :
                                   /\ marker = NoMarker \/ ListedBefore(marker, srvUploads[j])
                                   /\ ListedBefore(srvUploads[j], u) \/ srvUploads[j] = u}}

\* C33: findUploadId gives an uploadId only of an incomplete upload whose
\* key is the object name itself (never one of a key that only starts with
\* it), goes on to the next page after a truncated page without such a key,
\* and gives undefined when the last page had none either. A step of
\* findUploadId is one of: the request fails; the page is truncated and has
\* no upload of the object, and the next query starts after its last
\* upload, which is listed after the marker; runs start with uploadIds of
\* uploads of the object, none with undefined; one run starts with
\* undefined, and the server lists no upload of the object.
C33_FindUploadIdMatchesTheKeyExactly ==
    [][inv.pc = "finding" /\ inv' # inv =>
           \/ inv'.cb = "err" /\ pipes' = pipes
           \/ /\ inv'.pc = "finding"
              /\ pipes' = pipes
              /\ \E i \in 1..Len(srvUploads) :
                     /\ inv'.marker = srvUploads[i]
                     /\ i < Len(srvUploads)
                     /\ inv.marker = NoMarker \/ ListedBefore(inv.marker, srvUploads[i])
                     /\ Between(inv.marker, srvUploads[i]) \cap UploadsOfTheObject = {}
           \/ /\ inv'.pc = "started"
              /\ Listing' # {}
              /\ Initiating' = {}
              /\ \A p \in Listing' : pipes'[p].uploadId \in UploadsOfTheObject
           \/ /\ inv'.pc = "started"
              /\ Listing' = {}
              /\ Initiating' # {}
              /\ UploadsOfTheObject = {}]_vars

\* findUploadId has given undefined after it went through two pages of
\* uploads of another key with the same prefix.
C33_Witness ==
    /\ inv.pc = "started"
    /\ inv.marker # NoMarker
    /\ Initiating # {}
    /\ Len(srvUploads) = 2
    /\ \A i \in 1..Len(srvUploads) : srvUploads[i].key = OtherName

\* findUploadId has given the upload of the object and not the uploads,
\* listed on the same page, of the other key.
C33_WitnessMixed ==
    /\ inv.pc = "started"
    /\ Cardinality(Listing) = 1
    /\ \E i \in 1..Len(srvUploads) : srvUploads[i].key = OtherName
\* The runs of the steps after findUploadId that the invocation has
\* started.
Runs == {p \in Pipes : pipes[p].pc # "off"}

\* C34, as stated: findUploadId calls its callback exactly once per call,
\* whatever the listing holds, so that an invocation of putObject or
\* fPutObject drives one pipeline: once findUploadId is over, it has either
\* passed an error and started no run, or started exactly one run.
C34_FindUploadIdCallsBackOnce ==
    /\ Cardinality(Runs) <= 1
    /\ inv.pc = "started" /\ inv.path = "multipart" =>
           IF Runs = {} THEN inv.cb = "err" ELSE Cardinality(Runs) = 1
\* C35, as stated: in putObject's multipart path, when the stream has ended
\* and chunkUploader has emitted its parts list, every chunk it has
\* accepted is in a part of that list: no bytes are left aggregated that
\* were never uploaded, and the parts of the list add up to the bytes the
\* run has taken.
C35_NoBytesLeftAggregated ==
    \A p \in Pipes :
        inv.api = "put" /\ pipes[p].pc \in {"completing", "done"} =>
            /\ pipes[p].aggregatedSize = 0
            /\ SumLen(pipes[p].partsDone) = Consumed(p)
\* ------------------------------------------------------------------------
\* Claims about removeIncompleteUpload (checked under SpecRemove)
\* ------------------------------------------------------------------------

\* C36, as stated: removeIncompleteUpload sends its DELETE ?uploadId=...
\* request only when findUploadId has found an incomplete upload of the
\* object; when there is none, no DELETE request is sent.
C36_DeleteOnlyForAFoundUpload ==
    \A p \in Pipes : pipes[p].pc = "deleting" => pipes[p].uploadId # NoUpload
\* ------------------------------------------------------------------------
\* Claims about the part loop of fPutObject (checked under SpecLoop)
\* ------------------------------------------------------------------------

\* Run p is in the part loop of fPutObject.
Looping(p) == inv.api = "fput" /\ pipes[p].pc = "parts"

\* C37: for a file of minimumPartSize bytes or more (and at most
\* maxObjectSize), when no request fails, the part loop of fPutObject
\* ends: every pass adds a positive length to uploadedSize, uploadedSize
\* is never more than the size, and the loop is left, for
\* completeMultipartUpload, with uploadedSize equal to the size.
C37_PartLoopTerminates ==
    /\ [][\A p \in Pipes :
              /\ Looping(p) /\ pipes'[p].partNumber # pipes[p].partNumber =>
                     pipes'[p].uploadedSize > pipes[p].uploadedSize
              /\ Looping(p) /\ pipes'[p].pc # "parts" =>
                     /\ pipes'[p].pc = "completing"
                     /\ pipes'[p].partNumber # pipes[p].partNumber
              /\ pipes'[p].uploadedSize <= inv'.size
              /\ Looping(p)' => pipes'[p].uploadedSize < inv'.size
              /\ pipes'[p].pc \in {"completing", "done"} =>
                     pipes'[p].uploadedSize = inv'.size]_vars
    /\ \A p \in Pipes : Looping(p) ~> pipes[p].pc \in {"completing", "done"}
    /\ (inv.pc = "finding" /\ inv.size >= minimumPartSize) ~>
           \E p \in Pipes : pipes[p].pc \in {"completing", "done"}

\* The loop of a file of more than two parts has ended after three passes
\* that each sent a part, and completeMultipartUpload has succeeded.
C37_Witness ==
    /\ inv.api = "fput"
    /\ inv.cb = "ok"
    /\ \E p \in Pipes : /\ pipes[p].pc = "done"
                        /\ Len(pipes[p].putLog) = maxPartsCount
                        /\ pipes[p].uploadedSize = inv.size
                        /\ inv.size > 2 * minimumPartSize
\* ------------------------------------------------------------------------
\* Claims about the callback of makeRequestStream (checked under SpecStream)
\* ------------------------------------------------------------------------

\* C38, as stated: makeRequestStream calls the caller's callback at most
\* once per call, however the arrival of the response, the decoding of an
\* error body and the errors of the source stream and of the socket
\* interleave.
C38_CallbackAtMostOnce ==
    \A i \in 1..Len(rq.log) : Len(rq.log[i]) <= 1
\* ------------------------------------------------------------------------
\* Claims about the entries of other buckets (checked under Spec)
\* ------------------------------------------------------------------------

\* The entries of the region cache that this step changes.
ChangedEntries == {b \in Buckets : regionMap'[b] # regionMap[b]}

\* C39: a response with an unexpected status, a removeBucket that succeeds
\* and a region lookup change at most the cache entry of the bucket they
\* are for; the entries of all other buckets stay as they are. Every step
\* is a step of one call, and the entries it changes are at most that of
\* the call's bucket: an unexpected status and a successful removeBucket
\* leave that bucket without entry, the end of a lookup leaves it with one.
C39_OnlyTheBucketsOwnEntryChanges ==
    [][/\ ChangedEntries # {} => \E o \in Ops : ops'[o] # ops[o]
       /\ \A o \in Ops :
           ops'[o] # ops[o] =>
               /\ ChangedEntries \subseteq {ops[o].bucket}
               /\ ops[o].pc = "sending" /\ ops'[o].pc = "errBody" =>
                      \A b \in ChangedEntries : regionMap'[b] = NoRegion
               /\ ops[o].pc = "sending" /\ ops[o].kind = "removeBucket"
                      /\ ops'[o] = IdleOp =>
                      \A b \in ChangedEntries : regionMap'[b] = NoRegion
               /\ ops[o].pc = "locDecoding" /\ ops'[o].pc \in {"sending", "idle"} =>
                      \A b \in ChangedEntries : regionMap'[b] # NoRegion]_vars

\* A request to B has got an unexpected status while the regions of both
\* buckets were cached: B's entry is gone, the other bucket's is there.
C39_Witness ==
    /\ \E o \in Ops : ops[o].pc = "errBody" /\ ops[o].bucket = B
                      /\ ops[o].kind \in StreamKinds
    /\ regionMap[B] = NoRegion
    /\ \A b \in Buckets \ {B} : regionMap[b] # NoRegion
\* ------------------------------------------------------------------------
\* Claims about the number of parts (checked under SpecCall)
\* ------------------------------------------------------------------------

\* C40: for every size S with minimumPartSize < S <= maxObjectSize the
\* number of parts ceil(S / calculatePartSize(S)) is at most 10000
\* (maxPartsCount here), and calculatePartSize(S) is a positive number.
C40_AtMostMaxPartsCountParts ==
    /\ call.api = "calculatePartSize"
    /\ call.pc # "idle"
    /\ call.arg.size > minimumPartSize
    /\ call.arg.size <= maxObjectSize
    => /\ call.pc = "done"
       /\ call.result > 0
       /\ LeastQuotient(call.arg.size, call.result) <= maxPartsCount

\* calculatePartSize has returned, for maxObjectSize, a part size larger
\* than minimumPartSize that gives exactly maxPartsCount parts.
C40_Witness ==
    /\ call.api = "calculatePartSize" /\ call.pc = "done"
    /\ call.arg.size = maxObjectSize
    /\ call.result > minimumPartSize
    /\ LeastQuotient(call.arg.size, call.result) = maxPartsCount

====
